---- MODULE Spec2Model ----
(***************************************************************************)
(* Client-side batch coordinator of paper-insight (frontend/src/App.vue)   *)
(* and the per-paper stream session (composables/useThumbnailPreview.ts,   *)
(* services/api.ts).                                                       *)
(*                                                                         *)
(* The coordinator runs on the browser's event loop: every action below is *)
(* one synchronous run of a handler between two suspension points (await). *)
(***************************************************************************)
EXTENDS Integers, Sequences, FiniteSets, TLC

\* App.vue:22
MAX_CONCURRENT == 3

\* Paper IDs known to the client and the server.
NumPapers == 4
\* Handler invocations that may be suspended at an await at the same time
\* (handleBatchProcess at fetchPendingPaperIds, handlePaperImported at loadData).
MaxSuspended == 1

PaperIds == 1..NumPapers

VARIABLES
    batchProcessing,     \* App.vue:17  ref(false)
    processingQueue,     \* App.vue:23  paper IDs waiting to process
    processingPaperIds,  \* App.vue:24  paper IDs currently processing
    loading,             \* App.vue:15  set by loadData()
    batchCalls,          \* handleBatchProcess invocations suspended at App.vue:118
    importCalls,         \* handlePaperImported invocations suspended at App.vue:212
    seed,                \* history: the list the queue was last seeded with
    admitted,            \* history: IDs moved queue -> in-flight since that seeding, in order
    lastDone             \* history: the last handleProcessingDone call, <<success, was the ID in flight>>

\* The fetch of new papers, App.vue:84-108.
VARIABLES
    fetching,            \* App.vue:16  ref(false)
    fetches              \* one record per fetchPapersStream call of handleFetch: the
                         \* stage of its onDone callback and the saved count of
                         \* its done event

\* One paper card's stream session (useStreamProcessing) and the streams it opened.
VARIABLES
    isStreaming,         \* useThumbnailPreview.ts:198
    isRetrying,          \* useThumbnailPreview.ts:199
    streamProgress,      \* useThumbnailPreview.ts:200  the step list
    streamThought,       \* useThumbnailPreview.ts:201
    streamError,         \* useThumbnailPreview.ts:202  NoValue or [error, message]
    streamResult,        \* useThumbnailPreview.ts:203  NoValue or the result
    localStatus,         \* useThumbnailPreview.ts:204  NoValue or a status
    streamAbortFn,       \* useThumbnailPreview.ts:205  0 or the stream whose abort it holds
    processingStatus,    \* useThumbnailPreview.ts:193  the paper's server status (a prop)
    mounted,             \* whether the card is mounted (onUnmounted not run yet)
    refreshSignals,      \* onRefresh() calls made, useThumbnailPreview.ts:387
    streams,             \* api.ts:392-475  one record per processPaperStream call: its
                         \* phase, the status of a response that is not ok
                         \* (415), accumulatedThought (399), buffer (431), in
                         \* `wire` what the server sent and no read returned yet,
                         \* and in `sent` (history) the records the server sent
    retryIgnored         \* history: the last step was a handleRetry call that returned at line 351

\* The paper list store of App.vue and the position of its onMounted hook.
VARIABLES
    papers,              \* App.vue:12  the list, records [id, processing_status, is_processed]
    stats,               \* App.vue:13  <<>> for null, else <<total_papers>>
    updateStage,         \* per ID, where its updatePaperById call is suspended (App.vue:196, 203)
    mountStage,          \* where onMounted is (App.vue:165-178)
    lastListOp           \* history: <<"update", found>> or <<"remove", found, total was 0>>
                         \* when the last step stored a fetched paper or removed one, else <<>>

coordVars == <<batchProcessing, processingQueue, processingPaperIds, loading,
               batchCalls, importCalls, seed, admitted, lastDone>>

sessionVars == <<isStreaming, isRetrying, streamProgress, streamThought,
                 streamError, streamResult, localStatus, streamAbortFn,
                 processingStatus, mounted, refreshSignals, streams,
                 retryIgnored>>

listVars == <<papers, stats, updateStage, mountStage, lastListOp>>

fetchVars == <<fetching, fetches>>

appVars == <<coordVars, listVars, fetchVars>>

vars == <<coordVars, sessionVars, listVars, fetchVars>>

----------------------------------------------------------------------------
(* Helpers *)

Range(s) == {s[i] : i \in 1..Len(s)}

IsPrefix(s, t) == Len(s) <= Len(t) /\ SubSeq(t, 1, Len(s)) = s

\* The IDs of S in ascending order.
RECURSIVE Ascending(_)
Ascending(S) ==
    IF S = {} THEN <<>>
    ELSE LET m == CHOOSE x \in S : \A y \in S : x <= y
         IN  <<m>> \o Ascending(S \ {m})

\* The answers of GET /papers/pending (api.ts:88-91): the IDs of any set of
\* papers, each once, in the server's row order (ascending ID). The
\* coordinator never compares two IDs but for equality.
PendingIdLists == {Ascending(S) : S \in SUBSET PaperIds}

----------------------------------------------------------------------------
(* startNextBatch, App.vue:137-152 *)

\* App.vue:140  processingPaperIds.value.size < MAX_CONCURRENT
HasFreeSlotOffByOne(ids) == Cardinality(ids) <= MAX_CONCURRENT
HasFreeSlot(ids) == Cardinality(ids) < MAX_CONCURRENT

\* App.vue:143  const nextId = processingQueue.value.shift()!
ShiftFromTail(q) == [id |-> q[Len(q)], rest |-> SubSeq(q, 1, Len(q) - 1)]
Shift(q) == [id |-> Head(q), rest |-> Tail(q)]

\* App.vue:139-145  the while loop: the queue and in-flight set it leaves,
\* and the IDs it admitted, in order.
RECURSIVE FillSlots(_, _, _)
FillSlots(q, ids, adm) ==
    IF HasFreeSlot(ids) /\ Len(q) > 0
    THEN LET s == Shift(q)
         IN  FillSlots(s.rest, ids \cup {s.id}, Append(adm, s.id))
    ELSE [queue |-> q, ids |-> ids, admitted |-> adm]

\* App.vue:148  processingPaperIds.value.size === 0
BatchCompleteBelowLimit(ids) == Cardinality(ids) < MAX_CONCURRENT
BatchComplete(ids) == Cardinality(ids) = 0

\* startNextBatch() run on queue q and in-flight set ids, with the flag bp and
\* loading ld as they are when it is called; adm is the admission history.
startNextBatch(q, ids, bp, ld, adm) ==
    LET r == FillSlots(q, ids, adm)
    IN  /\ processingQueue' = r.queue
        /\ processingPaperIds' = r.ids
        /\ admitted' = r.admitted
        /\ IF BatchComplete(r.ids)
           THEN /\ batchProcessing' = FALSE
                /\ loading' = TRUE          \* loadData(), App.vue:64
           ELSE /\ batchProcessing' = bp
                /\ loading' = ld

----------------------------------------------------------------------------
(* handleBatchProcess, App.vue:110-135 *)

\* The call up to its await (App.vue:111-118); a call while a batch is
\* running returns at once.
handleBatchProcessCall ==
    IF batchProcessing
    THEN UNCHANGED coordVars
    ELSE /\ batchCalls < MaxSuspended
         /\ batchProcessing' = TRUE
         /\ batchCalls' = batchCalls + 1
         /\ UNCHANGED <<processingQueue, processingPaperIds, loading,
                        importCalls, seed, admitted, lastDone>>

\* The button's call (App.vue:110) and the call of handleFetch's timer
\* (App.vue:98-100).
handleBatchProcess ==
    /\ handleBatchProcessCall
    /\ UNCHANGED <<sessionVars, listVars, fetchVars>>

\* App.vue:127  processingPaperIds.value = new Set()
SeedInFlightKept(ids) == ids
SeedInFlight(ids) == {}

\* fetchPendingPaperIds() resolved with pendingIds (App.vue:118-130).
handleBatchProcessResumed(pendingIds) ==
    /\ batchCalls > 0
    /\ batchCalls' = batchCalls - 1
    /\ IF Len(pendingIds) = 0
       THEN /\ batchProcessing' = FALSE
            /\ UNCHANGED <<processingQueue, processingPaperIds, loading,
                           seed, admitted>>
       ELSE /\ seed' = pendingIds
            /\ startNextBatch(pendingIds, SeedInFlight(processingPaperIds),
                              batchProcessing, loading, <<>>)
    /\ UNCHANGED <<importCalls, lastDone>>
    /\ UNCHANGED <<sessionVars, listVars, fetchVars>>

\* fetchPendingPaperIds() rejected (App.vue:131-134).
handleBatchProcessFailed ==
    /\ batchCalls > 0
    /\ batchCalls' = batchCalls - 1
    /\ batchProcessing' = FALSE
    /\ UNCHANGED <<processingQueue, processingPaperIds, loading, importCalls,
                   seed, admitted, lastDone>>
    /\ UNCHANGED <<sessionVars, listVars, fetchVars>>

----------------------------------------------------------------------------
(* handleProcessingDone, App.vue:154-163 *)

\* App.vue:156-158  newSet.delete(paperId); processingPaperIds.value = newSet
RemoveDoneNotStored(ids, paperId) == ids
RemoveDone(ids, paperId) == ids \ {paperId}

\* A variant that puts a failed paper back in the queue.
handleProcessingDoneRequeue(paperId, success) ==
    /\ lastDone' = <<success, paperId \in processingPaperIds>>
    /\ startNextBatch(IF success \/ paperId \notin processingPaperIds
                      THEN processingQueue
                      ELSE Append(processingQueue, paperId),
                      RemoveDone(processingPaperIds, paperId),
                      batchProcessing, loading, admitted)
    /\ UNCHANGED <<batchCalls, importCalls, seed>>
    /\ UNCHANGED <<sessionVars, listVars, fetchVars>>

handleProcessingDone(paperId, success) ==
    /\ lastDone' = <<success, paperId \in processingPaperIds>>
    /\ startNextBatch(processingQueue, RemoveDone(processingPaperIds, paperId),
                      batchProcessing, loading, admitted)
    /\ UNCHANGED <<batchCalls, importCalls, seed>>
    /\ UNCHANGED <<sessionVars, listVars, fetchVars>>

----------------------------------------------------------------------------
(* loadData, App.vue:63-82, and handlePaperImported, App.vue:210-222 *)

\* App.vue:67-78  the three requests of loadData settle: all fulfilled
\* (ok), or one rejected and nothing is stored.
LoadDataResult(ok, papersData, statsData) ==
    IF ok
    THEN papers' = papersData /\ stats' = <<statsData>>
    ELSE UNCHANGED <<papers, stats>>

\* A loadData() call with no continuation settles (App.vue:67-80).
loadDataSettled(ok, papersData, statsData) ==
    /\ loading
    /\ mountStage # "loading"
    /\ \A i \in 1..Len(fetches) : fetches[i].stage # "loading"
    /\ loading' = FALSE
    /\ LoadDataResult(ok, papersData, statsData)
    /\ UNCHANGED <<batchProcessing, processingQueue, processingPaperIds,
                   batchCalls, importCalls, seed, admitted, lastDone>>
    /\ UNCHANGED <<updateStage, mountStage, lastListOp>>
    /\ UNCHANGED <<sessionVars, fetchVars>>

\* The call up to its await (App.vue:212, loadData at App.vue:64).
handlePaperImported ==
    /\ importCalls < MaxSuspended
    /\ importCalls' = importCalls + 1
    /\ loading' = TRUE
    /\ UNCHANGED <<batchProcessing, processingQueue, processingPaperIds,
                   batchCalls, seed, admitted, lastDone>>
    /\ UNCHANGED <<sessionVars, listVars, fetchVars>>

\* Its loadData() settled (App.vue:80) and the handler goes on
\* (App.vue:215-221). The arguments are fixed at the call; nothing reads them
\* before this point, so they are drawn here.
handlePaperImportedResumed(paperId, isNew, ok, papersData, statsData) ==
    /\ importCalls > 0
    /\ importCalls' = importCalls - 1
    /\ LoadDataResult(ok, papersData, statsData)
    /\ UNCHANGED <<updateStage, mountStage, lastListOp>>
    /\ IF isNew
       THEN /\ seed' = <<paperId>>
            /\ startNextBatch(<<paperId>>, {}, TRUE, FALSE, <<>>)
       ELSE /\ loading' = FALSE
            /\ UNCHANGED <<batchProcessing, processingQueue,
                           processingPaperIds, seed, admitted>>
    /\ UNCHANGED <<batchCalls, lastDone>>
    /\ UNCHANGED <<sessionVars, fetchVars>>

----------------------------------------------------------------------------
(* handleFetch, App.vue:84-108, over fetchPapersStream, api.ts:118-211 *)

\* Fetch streams handleFetch opens.
MaxFetches == 1

\* The saved counts of done events (api.ts:193-195).
SavedCounts == {0, 2}

\* App.vue:84-90; fetchPapersStream returns with its request pending.
handleFetch ==
    /\ IF fetching \/ batchProcessing
       THEN UNCHANGED fetchVars
       ELSE /\ Len(fetches) < MaxFetches
            /\ fetching' = TRUE
            /\ fetches' = Append(fetches, [stage |-> "streaming", saved |-> 0])
    /\ UNCHANGED <<coordVars, sessionVars, listVars>>

\* The done event of the fetch stream: onDone up to its await (App.vue:91-93,
\* loadData at App.vue:64).
fetchDone(i, saved) ==
    /\ fetches[i].stage = "streaming"
    /\ fetching' = FALSE
    /\ loading' = TRUE
    /\ fetches' = [fetches EXCEPT ![i] = [stage |-> "loading", saved |-> saved]]
    /\ UNCHANGED <<batchProcessing, processingQueue, processingPaperIds,
                   batchCalls, importCalls, seed, admitted, lastDone>>
    /\ UNCHANGED <<sessionVars, listVars>>

\* The error event of the fetch stream, or its failure: onError (App.vue:104-107).
fetchError(i) ==
    /\ fetches[i].stage = "streaming"
    /\ fetching' = FALSE
    /\ fetches' = [fetches EXCEPT ![i].stage = "failed"]
    /\ UNCHANGED <<coordVars, sessionVars, listVars>>

TriggersBatchAlways(saved) == TRUE

\* App.vue:96
TriggersBatch(saved) == saved > 0

\* onDone's loadData() settled (App.vue:80) and the callback goes on
\* (App.vue:96-101): the timer is set when papers were saved.
fetchDoneResumed(i, ok, papersData, statsData) ==
    /\ fetches[i].stage = "loading"
    /\ loading' = FALSE
    /\ LoadDataResult(ok, papersData, statsData)
    /\ fetches' = [fetches EXCEPT
                      ![i].stage = IF TriggersBatch(fetches[i].saved)
                                   THEN "timer" ELSE "finished"]
    /\ UNCHANGED fetching
    /\ UNCHANGED <<batchProcessing, processingQueue, processingPaperIds,
                   batchCalls, importCalls, seed, admitted, lastDone>>
    /\ UNCHANGED <<updateStage, mountStage, lastListOp>>
    /\ UNCHANGED sessionVars

\* The timer of App.vue:98-100 fires and calls handleBatchProcess.
fetchTimerFired(i) ==
    /\ fetches[i].stage = "timer"
    /\ fetches' = [fetches EXCEPT ![i].stage = "triggered"]
    /\ handleBatchProcessCall
    /\ UNCHANGED fetching
    /\ UNCHANGED <<sessionVars, listVars>>

----------------------------------------------------------------------------
(* The step pipeline, useThumbnailPreview.ts:159-167 and 247-348 *)

\* types/paper.ts:80  a step without `group`
NoGroup == 0

\* The labels stand for the template's: 下载PDF, 上传文件, 用户输入,
\* Parse File, 知识检索, LLM, 整合输出.
WORKFLOW_STEPS ==
    << [label |-> "Download PDF",        group |-> NoGroup],
       [label |-> "Upload file",         group |-> NoGroup],
       [label |-> "User input",          group |-> NoGroup],
       [label |-> "Parse File",          group |-> 1],
       [label |-> "Knowledge retrieval", group |-> 1],
       [label |-> "LLM",                 group |-> NoGroup],
       [label |-> "Output",              group |-> NoGroup] >>

\* Array.prototype.findIndex over the indices I that satisfy the test;
\* 0 stands for -1.
FindIndex(I) == IF I = {} THEN 0 ELSE CHOOSE i \in I : \A j \in I : i <= j

SetStatus(steps, I, status) ==
    [i \in 1..Len(steps) |->
        IF i \in I THEN [steps[i] EXCEPT !.status = status] ELSE steps[i]]

\* Every member of the group is made active, whatever its status.
ActivateGroupWhole(steps, group) ==
    SetStatus(steps, {i \in 1..Len(steps) : steps[i].group = group}, "active")

\* useThumbnailPreview.ts:284-288 and 307-311
ActivateGroup(steps, group) ==
    SetStatus(steps,
              {i \in 1..Len(steps) :
                  steps[i].group = group /\ steps[i].status = "pending"},
              "active")

ProgressStartedAllPending ==
    [i \in 1..Len(WORKFLOW_STEPS) |->
        [label  |-> WORKFLOW_STEPS[i].label,
         status |-> "pending",
         group  |-> WORKFLOW_STEPS[i].group]]

\* useThumbnailPreview.ts:250-254
ProgressStarted ==
    [i \in 1..Len(WORKFLOW_STEPS) |->
        [label  |-> WORKFLOW_STEPS[i].label,
         status |-> IF i = 1 THEN "active" ELSE "pending",
         group  |-> WORKFLOW_STEPS[i].group]]

\* The first two steps of the template are marked done even when the list
\* is still empty.
ProgressWorkflowStartedFromTemplate(steps) ==
    SetStatus(IF steps = <<>> THEN ProgressStarted ELSE steps, {1, 2}, "done")

\* useThumbnailPreview.ts:257-262
ProgressWorkflowStarted(steps) ==
    IF Len(steps) >= 2 THEN SetStatus(steps, {1, 2}, "done") ELSE steps

\* The messages of progress events: a marker and a node name. RunMarker
\* stands for "执行节点:", FinishMarker for "完成节点:".
RunMarker == "run: "
FinishMarker == "finish: "

\* useThumbnailPreview.ts:265-266 and 320-321: the node name is what follows
\* the marker, or the whole message when the marker is not in it.
NodeName(marker, message) ==
    IF message.marker = marker THEN message.name
    ELSE message.marker \o message.name

EarlierToFinishAll(steps, stepIndex) == 1..(stepIndex - 1)

\* useThumbnailPreview.ts:274-278  the steps before stepIndex that are marked done
EarlierToFinish(steps, stepIndex) ==
    {i \in 1..(stepIndex - 1) : steps[i].group = NoGroup}

\* useThumbnailPreview.ts:269-315
ProgressNodeStarted(steps, nodeName) ==
    LET stepIndex == FindIndex({i \in 1..Len(steps) : steps[i].label = nodeName})
    IN  IF stepIndex > 0
        THEN LET prev == SetStatus(steps, EarlierToFinish(steps, stepIndex), "done")
                 cur  == SetStatus(prev, {stepIndex}, "active")
             IN  IF cur[stepIndex].group # NoGroup
                 THEN ActivateGroup(cur, cur[stepIndex].group)
                 ELSE cur
        ELSE LET prevActive ==
                     FindIndex({i \in 1..Len(steps) : steps[i].status = "active"})
             IN  IF prevActive > 0
                 THEN LET done == SetStatus(steps,
                                      {i \in 1..Len(steps) : steps[i].status = "active"},
                                      "done")
                          nextPending ==
                              FindIndex({i \in 1..Len(done) : done[i].status = "pending"})
                      IN  IF nextPending > 0
                          THEN LET act == SetStatus(done, {nextPending}, "active")
                               IN  IF act[nextPending].group # NoGroup
                                   THEN ActivateGroup(act, act[nextPending].group)
                                   ELSE act
                          ELSE done
                 ELSE steps

FinishedStepsWholeGroup(steps, stepIndex) ==
    {stepIndex} \cup {i \in 1..Len(steps) :
                         /\ steps[i].group # NoGroup
                         /\ steps[i].group = steps[stepIndex].group}

\* useThumbnailPreview.ts:328  the steps a node_finished event marks done
FinishedSteps(steps, stepIndex) == {stepIndex}

NextAfterGroupAdjacent(steps, stepIndex) ==
    IF stepIndex < Len(steps) THEN stepIndex + 1 ELSE 0

\* useThumbnailPreview.ts:338  the step activated when a group is done
NextAfterGroup(steps, stepIndex) ==
    FindIndex({i \in 1..Len(steps) :
                  steps[i].status = "pending" /\ steps[i].group = NoGroup})

\* useThumbnailPreview.ts:323-344
ProgressNodeFinished(steps, nodeName) ==
    LET stepIndex == FindIndex({i \in 1..Len(steps) : steps[i].label = nodeName})
    IN  IF stepIndex > 0
        THEN LET done == SetStatus(steps, FinishedSteps(steps, stepIndex), "done")
                 currentGroup == done[stepIndex].group
                 allGroupDone ==
                     \A i \in 1..Len(done) :
                         done[i].group = currentGroup => done[i].status = "done"
                 nextPending == NextAfterGroup(done, stepIndex)
             IN  IF currentGroup # NoGroup /\ allGroupDone /\ nextPending > 0
                 THEN SetStatus(done, {nextPending}, "active")
                 ELSE done
        ELSE steps

\* useThumbnailPreview.ts:247-348
handleProgressEvent(steps, event) ==
    CASE event.status = "started"          -> ProgressStarted
      [] event.status = "workflow_started" -> ProgressWorkflowStarted(steps)
      [] event.status = "node_started"     ->
             ProgressNodeStarted(steps, NodeName(RunMarker, event.message))
      [] event.status = "node_finished"    ->
             ProgressNodeFinished(steps, NodeName(FinishMarker, event.message))
      [] OTHER                             -> steps

----------------------------------------------------------------------------
(* The paper list store, App.vue:12-13, 63-82, 165-208 *)

\* Papers the server has when the list store is looked at on its own.
NumListed == 3
\* The largest total_papers GET /stats answers.
MaxTotal == 1

ListedIds == 1..NumListed

Totals == 0..MaxTotal

\* types/paper.ts:18-19  the two fields of a paper that the store's code reads.
Unprocessed(status) == [processing_status |-> status, is_processed |-> FALSE]
Processed(status) == [processing_status |-> status, is_processed |-> TRUE]

\* types/paper.ts:1-23
PaperRecord(id, state) ==
    [id |-> id, processing_status |-> state.processing_status,
     is_processed |-> state.is_processed]

\* The IDs of S in descending order.
RECURSIVE Descending(_)
Descending(S) ==
    IF S = {} THEN <<>>
    ELSE LET m == CHOOSE x \in S : \A y \in S : x >= y
         IN  <<m>> \o Descending(S \ {m})

\* The answers of GET /papers (api.ts:53-61): the papers `ids`, each once
\* and in one of `states`, newest (highest ID) first.
PaperLists(ids, states) ==
    { [i \in 1..Cardinality(ids) |->
          PaperRecord(Descending(ids)[i], f[Descending(ids)[i]])] :
      f \in [ids -> states] }

PaperIdsOf(list) == [i \in 1..Len(list) |-> list[i].id]

\* App.vue:186  papers.filter(p => p.id !== paperId)
RECURSIVE FilterOutId(_, _)
FilterOutId(list, paperId) ==
    IF list = <<>> THEN <<>>
    ELSE IF Head(list).id # paperId
         THEN <<Head(list)>> \o FilterOutId(Tail(list), paperId)
         ELSE FilterOutId(Tail(list), paperId)

UpdatesSuspended == {id \in DOMAIN updateStage : updateStage[id] # "idle"}

\* App.vue:12-13; `stage` is where onMounted is.
ListInit(stage, list, total) ==
    /\ papers = list
    /\ stats = total
    /\ updateStage = [id \in PaperIds |-> "idle"]
    /\ mountStage = stage
    /\ lastListOp = <<>>

\* App.vue:180-182 with 63-66: loadData() is called and suspends at its await.
handleSettingsSaved ==
    /\ ~loading
    /\ mountStage # "loading"
    /\ loading' = TRUE
    /\ UNCHANGED <<batchProcessing, processingQueue, processingPaperIds,
                   batchCalls, importCalls, seed, admitted, lastDone>>
    /\ UNCHANGED <<sessionVars, listVars, fetchVars>>

\* App.vue:194-196  a card asks for a refresh; the call suspends at fetchPaper.
updatePaperById(paperId) ==
    /\ updateStage[paperId] = "idle"
    /\ updateStage' = [updateStage EXCEPT ![paperId] = "fetchPaper"]
    /\ lastListOp' = <<>>
    /\ UNCHANGED <<papers, stats, mountStage>>
    /\ UNCHANGED <<coordVars, sessionVars, fetchVars>>

ReplaceAtFront(list, index, updatedPaper) ==
    <<updatedPaper>> \o SubSeq(list, 1, index - 1) \o SubSeq(list, index + 1, Len(list))

\* App.vue:200
ReplaceAt(list, index, updatedPaper) == [list EXCEPT ![index] = updatedPaper]

StoreMissingAtEnd(list, updatedPaper) == Append(list, updatedPaper)

\* App.vue:198  index === -1: nothing is stored
StoreMissing(list, updatedPaper) == list

\* App.vue:196-203  fetchPaper settled: the record is stored at its index and
\* the call suspends at fetchStats; a rejection ends the call (App.vue:205).
updatePaperByIdFetched(paperId, ok, updatedPaper) ==
    /\ updateStage[paperId] = "fetchPaper"
    /\ IF ok
       THEN LET index == FindIndex({i \in 1..Len(papers) : papers[i].id = paperId})
            IN  /\ papers' = IF index > 0
                             THEN ReplaceAt(papers, index, updatedPaper)
                             ELSE StoreMissing(papers, updatedPaper)
                /\ updateStage' = [updateStage EXCEPT ![paperId] = "fetchStats"]
                /\ lastListOp' = <<"update", index > 0>>
       ELSE /\ updateStage' = [updateStage EXCEPT ![paperId] = "idle"]
            /\ lastListOp' = <<>>
            /\ UNCHANGED papers
    /\ UNCHANGED <<stats, mountStage>>
    /\ UNCHANGED <<coordVars, sessionVars, fetchVars>>

\* App.vue:203-207  fetchStats settled.
updatePaperByIdStats(paperId, ok, newStats) ==
    /\ updateStage[paperId] = "fetchStats"
    /\ updateStage' = [updateStage EXCEPT ![paperId] = "idle"]
    /\ stats' = IF ok THEN <<newStats>> ELSE stats
    /\ lastListOp' = <<>>
    /\ UNCHANGED <<papers, mountStage>>
    /\ UNCHANGED <<coordVars, sessionVars, fetchVars>>

DecrementUnclamped(total) == total - 1

\* App.vue:189  Math.max(0, total_papers - 1)
Decrement(total) == IF total - 1 > 0 THEN total - 1 ELSE 0

\* App.vue:184-191
handlePaperDeleted(paperId) ==
    /\ papers' = FilterOutId(papers, paperId)
    /\ stats' = IF stats # <<>> THEN <<Decrement(stats[1])>> ELSE stats
    /\ lastListOp' = <<"remove", \E i \in 1..Len(papers) : papers[i].id = paperId,
                        stats = <<0>> >>
    /\ UNCHANGED <<updateStage, mountStage>>
    /\ UNCHANGED <<coordVars, sessionVars, fetchVars>>

----------------------------------------------------------------------------
(* The recovery scan, App.vue:165-178 *)

\* App.vue:171-173
IsStuck(p) == p.processing_status = "processing" /\ ~p.is_processed

StuckIds(list) == {list[i].id : i \in {j \in 1..Len(list) : IsStuck(list[j])}}

\* GET /papers/pending at the server: stuck papers are reset to pending and
\* the IDs of the pending papers are listed, in row order.
PendingListing(list) ==
    Ascending({list[i].id : i \in {j \in 1..Len(list) :
                                       /\ ~list[j].is_processed
                                       /\ list[j].processing_status
                                              \in {"pending", "processing"}}})

\* App.vue:165-166 with 63-66: the hook runs and suspends in loadData.
onMounted ==
    /\ mountStage = "created"
    /\ mountStage' = "loading"
    /\ loading' = TRUE
    /\ UNCHANGED <<batchProcessing, processingQueue, processingPaperIds,
                   batchCalls, importCalls, seed, admitted, lastDone>>
    /\ UNCHANGED <<papers, stats, updateStage, lastListOp>>
    /\ UNCHANGED <<sessionVars, fetchVars>>

\* App.vue:171-174
ScanFindsStuck(list) == StuckIds(list) # {}

\* App.vue:67-80 and 166-177: the load settled, the scan runs and sets the
\* timer of App.vue:176.
onMountedLoaded(ok, papersData, statsData) ==
    /\ mountStage = "loading"
    /\ loading' = FALSE
    /\ LoadDataResult(ok, papersData, statsData)
    /\ mountStage' = IF ScanFindsStuck(papers') /\ ~batchProcessing
                     THEN "timer"
                     ELSE "mounted"
    /\ UNCHANGED <<batchProcessing, processingQueue, processingPaperIds,
                   batchCalls, importCalls, seed, admitted, lastDone>>
    /\ UNCHANGED <<updateStage, lastListOp>>
    /\ UNCHANGED <<sessionVars, fetchVars>>

\* App.vue:176  the timer fires: handleBatchProcess()
recoveryTimerFired ==
    /\ mountStage = "timer"
    /\ mountStage' = "mounted"
    /\ handleBatchProcessCall
    /\ UNCHANGED <<papers, stats, updateStage, lastListOp>>
    /\ UNCHANGED <<sessionVars, fetchVars>>

----------------------------------------------------------------------------
(* The stream session: useStreamProcessing, useThumbnailPreview.ts:191-420,
   over processPaperStream, api.ts:392-543 *)

\* Streams one card opens.
MaxStreams == 2
\* Characters of accumulated thought.
MaxThoughtLen == 11
\* onRefresh() calls counted.
MaxRefresh == 1

\* null of a ref that holds a string
NoValue == "null"

\* types/paper.ts processing_status
Statuses == {"pending", "processing", "done", "failed"}

\* The progress events a stream delivers (types/paper.ts:59-62).
ProgressEvent(status, marker, name) ==
    [status |-> status, message |-> [marker |-> marker, name |-> name]]

HttpErrorWithBodyOnly(status, errorText) ==
    [error |-> "http_" \o status, message |-> errorText]

\* api.ts:412-418  what the error callback gets for a response that is not
\* ok: the status in the kind, the body as the message unless it is empty.
HttpError(status, errorText) ==
    [error |-> "http_" \o status,
     message |-> IF errorText = "" THEN "HTTP Error: " \o status ELSE errorText]

\* api.ts:463-466  what the error callback gets for an error that was caught
StreamError(message) ==
    [error |-> "stream_error",
     message |-> IF message = "" THEN "Stream processing failed" ELSE message]

\* The errors processPaperStream reports when fetch is settled and there is
\* no body to read: no reader (api.ts:421-427), fetch rejected (463-466).
ConnectErrors ==
    {[error |-> "no_reader", message |-> "Failed to get response reader"],
     [error |-> "stream_error", message |-> "Stream processing failed"]}

\* What fetch and reader.read() reject with when the signal is aborted
\* (api.ts:409, 473) ...
AbortError == [name |-> "AbortError", message |-> "The operation was aborted."]

\* ... and when the connection fails.
NetworkError == [name |-> "TypeError", message |-> ""]

\* The records of the event stream that reach a callback (api.ts:510-542).
StreamEvents(progressEvents, chunks, errorEvents) ==
    {[type |-> "progress", data |-> e] : e \in progressEvents}
    \cup {[type |-> "thinking", data |-> c] : c \in chunks}
    \cup {[type |-> "result", data |-> "result"]}
    \cup {[type |-> "error", data |-> e] : e \in errorEvents}
    \cup {[type |-> "done", data |-> "done"]}

getStreamErrorMessageNoFallback(error) ==
    CASE error.error = "entity_too_large" -> "Paper too long, process it manually"
      [] error.error = "timeout" -> "Analysis timed out, retry later"
      [] error.error = "rate_limit" -> "Too many requests, retry later"
      [] error.error = "dify_error" -> "Dify service error: " \o error.message
      [] OTHER -> error.message

\* api.ts:548-561; the texts stand for the Chinese ones of the source.
getStreamErrorMessage(error) ==
    CASE error.error = "entity_too_large" -> "Paper too long, process it manually"
      [] error.error = "timeout" -> "Analysis timed out, retry later"
      [] error.error = "rate_limit" -> "Too many requests, retry later"
      [] error.error = "dify_error" -> "Dify service error: " \o error.message
      [] OTHER -> IF error.message = "" THEN "Unknown error" ELSE error.message

statusValueServerFirst ==
    IF processingStatus # NoValue THEN processingStatus ELSE localStatus

\* useThumbnailPreview.ts:208-214
statusValue == IF localStatus # NoValue THEN localStatus ELSE processingStatus
isProcessing == statusValue = "processing"

\* useThumbnailPreview.ts:216-218
isFailed == statusValue = "failed"

\* useThumbnailPreview.ts:220-226
statusLabel ==
    IF isStreaming \/ statusValue = "processing" THEN "Dify analyzing..."
    ELSE IF statusValue = "failed"
         THEN IF streamError # <<>>
              THEN getStreamErrorMessage(streamError[1])
              ELSE "Analysis failed"
         ELSE "Queued for analysis"

\* useThumbnailPreview.ts:228-233
statusTag ==
    IF isStreaming THEN "streaming"
    ELSE IF statusValue = "processing" THEN "processing"
    ELSE IF statusValue = "failed" THEN "failed"
    ELSE "pending"

\* A stream that has neither ended nor been aborted.
IsOpen(stream) == stream.phase \in {"connecting", "errorText", "reading"}

OpenStreams == {i \in 1..Len(streams) : IsOpen(streams[i])}

\* useThumbnailPreview.ts:198-205, before any stream; processingStatus is the prop.
SessionInit(status) ==
    /\ isStreaming = FALSE
    /\ isRetrying = FALSE
    /\ streamProgress = <<>>
    /\ streamThought = ""
    /\ streamError = <<>>
    /\ streamResult = NoValue
    /\ localStatus = NoValue
    /\ streamAbortFn = 0
    /\ processingStatus = status
    /\ mounted = TRUE
    /\ refreshSignals = 0
    /\ streams = <<>>
    /\ retryIgnored = FALSE

\* useThumbnailPreview.ts:350-392; processPaperStream (api.ts:392-475) returns
\* with its fetch pending.
RetryBlockedWhileStreamingOnly == isRetrying \/ isStreaming

\* useThumbnailPreview.ts:351
RetryBlocked == isRetrying \/ isProcessing \/ isStreaming

\* A retry that starts the new attempt over what the last one left: the
\* steps, the thought and the stored error are kept.
handleRetryKeepsAttempt ==
    /\ mounted
    /\ IF RetryBlocked
       THEN /\ retryIgnored' = TRUE
            /\ UNCHANGED <<isStreaming, isRetrying, streamProgress, streamThought,
                           streamError, streamResult, localStatus, streamAbortFn,
                           processingStatus, mounted, refreshSignals, streams>>
            /\ UNCHANGED appVars
       ELSE /\ Len(streams) < MaxStreams
            /\ retryIgnored' = FALSE
            /\ isRetrying' = TRUE
            /\ isStreaming' = TRUE
            /\ localStatus' = "processing"
            /\ streamResult' = NoValue
            /\ streams' = Append(streams, [phase |-> "connecting",
                                           status |-> "",
                                           accumulatedThought |-> "",
                                           buffer |-> <<>>,
                                           wire |-> <<>>,
                                           sent |-> <<>>])
            /\ streamAbortFn' = Len(streams) + 1
            /\ UNCHANGED <<streamProgress, streamThought, streamError,
                           processingStatus, mounted, refreshSignals>>
            /\ UNCHANGED appVars

\* useThumbnailPreview.ts:350-392
handleRetry ==
    /\ mounted
    /\ IF RetryBlocked
       THEN /\ retryIgnored' = TRUE
            /\ UNCHANGED <<isStreaming, isRetrying, streamProgress, streamThought,
                           streamError, streamResult, localStatus, streamAbortFn,
                           processingStatus, mounted, refreshSignals, streams>>
            /\ UNCHANGED appVars
       ELSE /\ Len(streams) < MaxStreams
            /\ retryIgnored' = FALSE
            /\ isRetrying' = TRUE
            /\ isStreaming' = TRUE
            /\ localStatus' = "processing"
            /\ streamProgress' = <<>>
            /\ streamThought' = ""
            /\ streamError' = <<>>
            /\ streamResult' = NoValue
            /\ streams' = Append(streams, [phase |-> "connecting",
                                           status |-> "",
                                           accumulatedThought |-> "",
                                           buffer |-> <<>>,
                                           wire |-> <<>>,
                                           sent |-> <<>>])
            /\ streamAbortFn' = Len(streams) + 1
            /\ UNCHANGED <<processingStatus, mounted, refreshSignals>>
            /\ UNCHANGED appVars

onResultFinishesActive(result) ==
    /\ streamResult' = result
    /\ streamProgress' =
           SetStatus(streamProgress,
                     {i \in 1..Len(streamProgress) : streamProgress[i].status = "active"},
                     "done")
    /\ UNCHANGED <<isStreaming, isRetrying, streamThought, streamError,
                   localStatus, refreshSignals>>

\* useThumbnailPreview.ts:368-372
onResult(result) ==
    /\ streamResult' = result
    /\ streamProgress' = SetStatus(streamProgress, 1..Len(streamProgress), "done")
    /\ UNCHANGED <<isStreaming, isRetrying, streamThought, streamError,
                   localStatus, refreshSignals>>

onErrorMarksEveryStep(error) ==
    /\ streamError' = <<error>>
    /\ streamProgress' = SetStatus(streamProgress, 1..Len(streamProgress), "error")
    /\ localStatus' = "failed"
    /\ isStreaming' = FALSE
    /\ isRetrying' = FALSE
    /\ UNCHANGED <<streamThought, streamResult, refreshSignals>>

\* useThumbnailPreview.ts:373-382
onError(error) ==
    /\ streamError' = <<error>>
    /\ streamProgress' =
           SetStatus(streamProgress,
                     {i \in 1..Len(streamProgress) : streamProgress[i].status = "active"},
                     "error")
    /\ localStatus' = "failed"
    /\ isStreaming' = FALSE
    /\ isRetrying' = FALSE
    /\ UNCHANGED <<streamThought, streamResult, refreshSignals>>

onDoneKeepsLocalStatus ==
    /\ isStreaming' = FALSE
    /\ isRetrying' = FALSE
    /\ refreshSignals' = refreshSignals + 1
    /\ UNCHANGED <<streamProgress, streamThought, streamError, streamResult,
                   localStatus>>

\* useThumbnailPreview.ts:383-388
onDone ==
    /\ isStreaming' = FALSE
    /\ isRetrying' = FALSE
    /\ localStatus' = NoValue
    /\ refreshSignals' = refreshSignals + 1
    /\ UNCHANGED <<streamProgress, streamThought, streamError, streamResult>>

catchReportsAbort(error) == onError(StreamError(error.message))

\* api.ts:459-467  the catch block: an abort ends the stream without a
\* callback, any other error is reported.
catch(error) ==
    IF error.name = "AbortError"
    THEN UNCHANGED <<isStreaming, isRetrying, streamProgress, streamThought,
                     streamError, streamResult, localStatus, refreshSignals>>
    ELSE onError(StreamError(error.message))

\* api.ts:404-420  the response arrives and is ok; reading starts.
responseOk(i) ==
    /\ streams[i].phase = "connecting"
    /\ streams' = [streams EXCEPT ![i].phase = "reading"]
    /\ UNCHANGED <<isStreaming, isRetrying, streamProgress, streamThought,
                   streamError, streamResult, localStatus, streamAbortFn,
                   processingStatus, mounted, refreshSignals>>
    /\ retryIgnored' = FALSE
    /\ UNCHANGED appVars

\* api.ts:404-413  the response arrives and is not ok; its body is awaited
\* as text.
responseNotOk(i, status) ==
    /\ streams[i].phase = "connecting"
    /\ streams' = [streams EXCEPT ![i].phase = "errorText", ![i].status = status]
    /\ UNCHANGED <<isStreaming, isRetrying, streamProgress, streamThought,
                   streamError, streamResult, localStatus, streamAbortFn,
                   processingStatus, mounted, refreshSignals>>
    /\ retryIgnored' = FALSE
    /\ UNCHANGED appVars

\* api.ts:413-419  the body of the response that is not ok has been read.
errorTextRead(i, errorText) ==
    /\ streams[i].phase = "errorText"
    /\ streams' = [streams EXCEPT ![i].phase = "ended"]
    /\ onError(HttpError(streams[i].status, errorText))
    /\ UNCHANGED <<streamAbortFn, processingStatus, mounted>>
    /\ retryIgnored' = FALSE
    /\ UNCHANGED appVars

\* api.ts:413 with 459-467  response.text() rejected, not by an abort.
errorTextFailed(i, error) ==
    /\ streams[i].phase = "errorText"
    /\ streams' = [streams EXCEPT ![i].phase = "ended"]
    /\ catch(error)
    /\ UNCHANGED <<streamAbortFn, processingStatus, mounted>>
    /\ retryIgnored' = FALSE
    /\ UNCHANGED appVars

\* api.ts:421-428, 459-467  no stream to read: no body, or the fetch failed.
connectFailed(i, error) ==
    /\ streams[i].phase = "connecting"
    /\ streams' = [streams EXCEPT ![i].phase = "ended"]
    /\ onError(error)
    /\ UNCHANGED <<streamAbortFn, processingStatus, mounted>>
    /\ retryIgnored' = FALSE
    /\ UNCHANGED appVars

\* api.ts:434-457 with handleStreamEvent, api.ts:502-543: a read returns
\* exactly one whole record, which is dispatched.
recordRead(i, event) ==
    /\ streams[i].phase = "reading"
    /\ streams[i].buffer = <<>>
    /\ CASE event.type = "progress" ->
              /\ streamProgress' = handleProgressEvent(streamProgress, event.data)
              /\ UNCHANGED <<isStreaming, isRetrying, streamThought, streamError,
                             streamResult, localStatus, refreshSignals, streams>>
         [] event.type = "thinking" ->
              LET newThought == streams[i].accumulatedThought \o event.data
              IN  /\ Len(newThought) <= MaxThoughtLen
                  /\ streams' = [streams EXCEPT ![i].accumulatedThought = newThought]
                  /\ streamThought' = newThought
                  /\ UNCHANGED <<isStreaming, isRetrying, streamProgress, streamError,
                                 streamResult, localStatus, refreshSignals>>
         [] event.type = "result" ->
              /\ onResult(event.data)
              /\ UNCHANGED streams
         [] event.type = "error" ->
              /\ onError(event.data)
              /\ UNCHANGED streams
         [] event.type = "done" ->
              /\ refreshSignals < MaxRefresh
              /\ onDone
              /\ UNCHANGED streams
    /\ UNCHANGED <<streamAbortFn, processingStatus, mounted>>
    /\ retryIgnored' = FALSE
    /\ UNCHANGED appVars

----------------------------------------------------------------------------
(* Framing of the event stream, api.ts:433-458 and 477-500 *)

\* The text on the wire, in units: a line feed, an "event:" line or a
\* "data:" line (whose text stands for the JSON on it).
LineFeed == [kind |-> "nl", text |-> ""]

\* One record as the server writes it: event line, data line, blank line.
Frame(eventType, data) ==
    << [kind |-> "event", text |-> eventType], LineFeed,
       [kind |-> "data", text |-> data], LineFeed, LineFeed >>

\* A record without a data line: event line, blank line.
FrameWithoutData(eventType) ==
    << [kind |-> "event", text |-> eventType], LineFeed, LineFeed >>

\* A data line whose text is not JSON.
NotJSON == "{oops"

\* api.ts:495-499  JSON.parse of the text of a data line: nothing when it
\* throws, else the payload, which the text stands for ("null" for null).
JSONparse(dataStr) == IF dataStr = NotJSON THEN <<>> ELSE <<dataStr>>

\* api.ts:510-542  the event types handleStreamEvent has a case for
HandledTypes == {"progress", "thinking", "answer", "result", "error", "done"}

NoCarryOver(pieces) == <<>>

\* api.ts:441  buffer = events.pop() || ''
CarryOver(pieces) == pieces[Len(pieces)]

\* api.ts:440  buffer.split('\n\n'): the pieces between blank lines, the
\* last piece being what follows the last blank line.
RECURSIVE SplitOnBlankLine(_, _, _)
SplitOnBlankLine(units, piece, pieces) ==
    IF units = <<>> THEN Append(pieces, piece)
    ELSE IF Len(units) >= 2 /\ units[1] = LineFeed /\ units[2] = LineFeed
         THEN SplitOnBlankLine(SubSeq(units, 3, Len(units)), <<>>, Append(pieces, piece))
         ELSE SplitOnBlankLine(Tail(units), Append(piece, Head(units)), pieces)

\* The text of the last line of the kind in the piece, "" if there is none.
LastLine(piece, kind) ==
    LET at == {j \in 1..Len(piece) : piece[j].kind = kind}
    IN  IF at = {} THEN ""
        ELSE piece[CHOOSE j \in at : \A l \in at : l <= j].text

\* api.ts:477-500  NoValue for null
parseSSEEvent(eventStr) ==
    LET dataStr == LastLine(eventStr, "data")
    IN  IF dataStr = "" \/ JSONparse(dataStr) = <<>>
        THEN [eventType |-> NoValue, data |-> NoValue]
        ELSE [eventType |-> IF LastLine(eventStr, "event") = ""
                            THEN NoValue
                            ELSE LastLine(eventStr, "event"),
              data |-> JSONparse(dataStr)[1]]

RECURSIVE ParsedEventsUntilSkip(_)
ParsedEventsUntilSkip(pieces) ==
    IF pieces = <<>> THEN <<>>
    ELSE LET parsed == parseSSEEvent(Head(pieces))
         IN  IF parsed.eventType = NoValue \/ parsed.data = NoValue
             THEN <<>>
             ELSE <<parsed>> \o ParsedEventsUntilSkip(Tail(pieces))

\* api.ts:443-448  the records of the pieces that are not skipped, in order
RECURSIVE ParsedEvents(_)
ParsedEvents(pieces) ==
    IF pieces = <<>> THEN <<>>
    ELSE LET parsed == parseSSEEvent(Head(pieces))
         IN  IF parsed.eventType = NoValue \/ parsed.data = NoValue
             THEN ParsedEvents(Tail(pieces))
             ELSE <<parsed>> \o ParsedEvents(Tail(pieces))

\* api.ts:515-521 over the thinking records of one read, in order
RECURSIVE AppendThoughts(_, _)
AppendThoughts(accumulatedThought, events) ==
    IF events = <<>> THEN accumulatedThought
    ELSE AppendThoughts(accumulatedThought \o Head(events).data, Tail(events))

ThinkingOf(events) == SelectSeq(events, LAMBDA e : e.eventType = "thinking")

\* The records of those sent that the client can dispatch.
Dispatchable(sent) ==
    SelectSeq(sent, LAMBDA r : /\ r.data \notin {"", NotJSON, NoValue}
                               /\ r.eventType \in HandledTypes)

\* Records the server writes to one stream.
MaxSent == 3

\* The chunks of thought the server sends.
Chunks == {"Hello ", "world"}

\* The server has written its last record, done, to the stream.
ServerFinished(stream) ==
    stream.sent # <<>> /\ stream.sent[Len(stream.sent)].eventType = "done"

\* The server writes one more record to the stream: a chunk of thought, or
\* done, after which it writes nothing.
serverSends(i, eventType, data) ==
    /\ streams[i].phase = "reading"
    /\ ~ServerFinished(streams[i])
    /\ Len(streams[i].sent) < MaxSent
    /\ eventType = "thinking"
           => Len(AppendThoughts("", ThinkingOf(Dispatchable(streams[i].sent))) \o data)
                  <= MaxThoughtLen
    /\ streams' = [streams EXCEPT
                      ![i].wire = @ \o (IF data = "" THEN FrameWithoutData(eventType)
                                                    ELSE Frame(eventType, data)),
                      ![i].sent = Append(@, [eventType |-> eventType, data |-> data])]
    /\ UNCHANGED <<isStreaming, isRetrying, streamProgress, streamThought,
                   streamError, streamResult, localStatus, streamAbortFn,
                   processingStatus, mounted, refreshSignals>>
    /\ retryIgnored' = FALSE
    /\ UNCHANGED appVars

\* A read that also takes the piece after the last blank line for a record.
ReadCompletesWithTail(i, n) ==
    ParsedEvents(SplitOnBlankLine(streams[i].buffer \o SubSeq(streams[i].wire, 1, n),
                                  <<>>, <<>>))

\* The records a read of the next n units of stream i completes.
ReadCompletes(i, n) ==
    LET pieces == SplitOnBlankLine(streams[i].buffer \o SubSeq(streams[i].wire, 1, n),
                                   <<>>, <<>>)
    IN  ParsedEvents(SubSeq(pieces, 1, Len(pieces) - 1))

\* api.ts:434-457 with 515-521, 540-542 and useThumbnailPreview.ts:365-367,
\* 383-388: a read returns the next n units; the buffer is split and every
\* completed record that is not skipped is dispatched. The reads are those
\* whose records are thinking records, records of a type without a callback
\* and a done after them.
chunkRead(i, n) ==
    /\ streams[i].phase = "reading"
    /\ n \in 1..Len(streams[i].wire)
    /\ LET pieces == SplitOnBlankLine(streams[i].buffer \o SubSeq(streams[i].wire, 1, n),
                                      <<>>, <<>>)
           events == ReadCompletes(i, n)
           thinking == ThinkingOf(events)
           newThought == AppendThoughts(streams[i].accumulatedThought, thinking)
           done == events # <<>> /\ events[Len(events)].eventType = "done"
       IN  /\ \A j \in 1..Len(events) :
                  \/ events[j].eventType \notin {"progress", "result", "error", "done"}
                  \/ j = Len(events) /\ events[j].eventType = "done"
           /\ streams' = [streams EXCEPT
                             ![i].wire = SubSeq(@, n + 1, Len(@)),
                             ![i].buffer = CarryOver(pieces),
                             ![i].accumulatedThought = newThought]
           /\ streamThought' = IF thinking # <<>> THEN newThought ELSE streamThought
           /\ IF done
              THEN /\ refreshSignals < MaxRefresh
                   /\ isStreaming' = FALSE
                   /\ isRetrying' = FALSE
                   /\ localStatus' = NoValue
                   /\ refreshSignals' = refreshSignals + 1
              ELSE UNCHANGED <<isStreaming, isRetrying, localStatus, refreshSignals>>
    /\ UNCHANGED <<streamProgress, streamError, streamResult, streamAbortFn,
                   processingStatus, mounted>>
    /\ retryIgnored' = FALSE
    /\ UNCHANGED appVars

\* api.ts:434-435  the server closed the stream: reader.read() gives done.
streamClosed(i) ==
    /\ streams[i].phase = "reading"
    /\ streams' = [streams EXCEPT ![i].phase = "ended"]
    /\ UNCHANGED <<isStreaming, isRetrying, streamProgress, streamThought,
                   streamError, streamResult, localStatus, streamAbortFn,
                   processingStatus, mounted, refreshSignals>>
    /\ retryIgnored' = FALSE
    /\ UNCHANGED appVars

\* api.ts:434 with 459-467  reader.read() rejected, not by an abort.
readFailed(i, error) ==
    /\ streams[i].phase = "reading"
    /\ streams' = [streams EXCEPT ![i].phase = "ended"]
    /\ catch(error)
    /\ UNCHANGED <<streamAbortFn, processingStatus, mounted>>
    /\ retryIgnored' = FALSE
    /\ UNCHANGED appVars

\* useThumbnailPreview.ts:395-400 with api.ts:473 and 459-462: the card is
\* unmounted and the abort handle it stores is called; the pending fetch or
\* read of that stream rejects and its catch block runs.
onUnmounted ==
    /\ mounted
    /\ mounted' = FALSE
    /\ streamAbortFn' = 0
    /\ IF streamAbortFn # 0 /\ IsOpen(streams[streamAbortFn])
       THEN /\ streams' = [streams EXCEPT ![streamAbortFn].phase = "aborted"]
            /\ catch(AbortError)
       ELSE UNCHANGED <<streams, isStreaming, isRetrying, streamProgress,
                        streamThought, streamError, streamResult, localStatus,
                        refreshSignals>>
    /\ UNCHANGED processingStatus
    /\ retryIgnored' = FALSE
    /\ UNCHANGED appVars

\* The paper prop changes (App.vue:73, 200) and the watcher runs,
\* useThumbnailPreview.ts:236-244.
processingStatusChanged(newStatus) ==
    /\ mounted
    /\ newStatus # processingStatus
    /\ processingStatus' = newStatus
    /\ streamProgress' = IF /\ newStatus # "processing"
                            /\ processingStatus = "processing"
                            /\ ~isStreaming
                         THEN <<>>
                         ELSE streamProgress
    /\ UNCHANGED <<isStreaming, isRetrying, streamThought, streamError,
                   streamResult, localStatus, streamAbortFn, mounted,
                   refreshSignals, streams>>
    /\ retryIgnored' = FALSE
    /\ UNCHANGED appVars


----------------------------------------------------------------------------
(* The coordinator *)

\* App.vue:12-24
CoordInit ==
    /\ batchProcessing = FALSE
    /\ processingQueue = <<>>
    /\ processingPaperIds = {}
    /\ loading = FALSE
    /\ batchCalls = 0
    /\ importCalls = 0
    /\ seed = <<>>
    /\ admitted = <<>>
    /\ lastDone = <<>>
    /\ fetching = FALSE
    /\ fetches = <<>>

\* The server's papers while the coordinator is looked at: every paper
\* pending, newest first. The coordinator reads no field of them.
ServerPapers ==
    [i \in 1..NumPapers |-> PaperRecord(NumPapers + 1 - i, Unprocessed("pending"))]

\* After onMounted's loadData stored the server's papers.
ListLoaded == ListInit("mounted", ServerPapers, <<NumPapers>>)

Init == CoordInit /\ SessionInit("pending") /\ ListLoaded

Next ==
    \/ handleBatchProcess
    \/ \E pendingIds \in PendingIdLists : handleBatchProcessResumed(pendingIds)
    \/ handleBatchProcessFailed
    \/ \E paperId \in PaperIds, success \in BOOLEAN :
           handleProcessingDone(paperId, success)
    \/ \E ok \in BOOLEAN : loadDataSettled(ok, ServerPapers, NumPapers)
    \/ handlePaperImported
    \/ \E paperId \in PaperIds, isNew \in BOOLEAN, ok \in BOOLEAN :
           handlePaperImportedResumed(paperId, isNew, ok, ServerPapers, NumPapers)

Spec == Init /\ [][Next]_vars

\* Under the claims' proviso: the session of every paper in flight reports
\* its completion while the paper is in flight, and the pending-ID request
\* of a suspended handleBatchProcess settles.
ReportInFlight(paperId) ==
    /\ paperId \in processingPaperIds
    /\ \E success \in BOOLEAN : handleProcessingDone(paperId, success)

PendingRequestSettles ==
    \/ \E pendingIds \in PendingIdLists : handleBatchProcessResumed(pendingIds)
    \/ handleBatchProcessFailed

FairSpec ==
    /\ Spec
    /\ SF_vars(\E paperId \in PaperIds : ReportInFlight(paperId))
    /\ WF_vars(PendingRequestSettles)

----------------------------------------------------------------------------
(* Claims about the batch coordinator *)

NoDuplicates(s) == \A i, j \in 1..Len(s) : s[i] = s[j] => i = j

Idle == processingQueue = <<>> /\ processingPaperIds = {} /\ ~batchProcessing

\* A step in which startNextBatch runs.
StartNextBatchStep ==
    \/ \E paperId \in PaperIds, success \in BOOLEAN :
           handleProcessingDone(paperId, success)
    \/ \E pendingIds \in PendingIdLists \ {<<>>} :
           handleBatchProcessResumed(pendingIds)
    \/ \E paperId \in PaperIds, ok \in BOOLEAN :
           handlePaperImportedResumed(paperId, TRUE, ok, ServerPapers, NumPapers)

\* C1: the in-flight set never holds more than MAX_CONCURRENT IDs.
C1_InFlightWithinLimit == Cardinality(processingPaperIds) <= MAX_CONCURRENT

\* The limit is binding: after a completion the set has been filled again.
C1_Witness ==
    /\ Cardinality(processingPaperIds) = MAX_CONCURRENT
    /\ Len(admitted) > MAX_CONCURRENT
    /\ lastDone # <<>>

\* C2: every ID of the seeded list is moved from the queue into the in-flight
\* set exactly once: an ID leaves the queue only by entering the in-flight
\* set, and no ID is admitted twice.
C2_EverySeededIdAdmittedOnce ==
    [][/\ \A id \in Range(processingQueue) :
              id \in Range(processingQueue') \/ id \in processingPaperIds'
       /\ NoDuplicates(admitted')]_vars

\* C3: admission is FIFO: the IDs admitted so far are, in order, a prefix of
\* the list the batch was seeded with.
C3_AdmittedInSeedOrder == IsPrefix(admitted, seed)

\* Completions out of order: the second admitted paper is done, the first is
\* still in flight, and a queued paper has taken the free slot.
C3_Witness ==
    /\ Len(admitted) > MAX_CONCURRENT
    /\ admitted[1] \in processingPaperIds
    /\ admitted[2] \notin processingPaperIds
    /\ admitted[Len(admitted)] \in processingPaperIds

\* C4: no ID is in the pending queue and in the in-flight set at once.
C4_QueueAndInFlightDisjoint ==
    Range(processingQueue) \cap processingPaperIds = {}

C4_Witness ==
    /\ processingQueue # <<>>
    /\ processingPaperIds # {}
    /\ Len(seed) > MAX_CONCURRENT

\* C5: startNextBatch clears batchProcessing and calls loadData exactly when
\* the in-flight set is empty after filling; the queue is empty then, and it
\* never clears the flag while an ID is queued or in flight.
C5_ClearsExactlyWhenDrained ==
    [][StartNextBatchStep =>
         /\ processingPaperIds' = {} =>
                /\ ~batchProcessing'
                /\ loading'
                /\ processingQueue' = <<>>
         /\ processingPaperIds' # {} =>
                /\ batchProcessing => batchProcessing'
                /\ loading' => loading
         /\ (batchProcessing /\ ~batchProcessing') =>
                processingQueue' = <<>> /\ processingPaperIds' = {}]_vars

\* The last report freed the last slot of a batch: flag cleared, reload under way.
C5_Witness ==
    /\ Idle
    /\ loading
    /\ seed # <<>>
    /\ admitted = seed
    /\ lastDone # <<>>
    /\ lastDone[2]

\* C6: under FairSpec a running batch eventually completes.
C6_BatchEventuallyCompletes == batchProcessing ~> Idle

\* A batch longer than the limit has been worked off completely.
C6_Witness ==
    /\ Idle
    /\ Len(seed) > MAX_CONCURRENT
    /\ admitted = seed

\* C7: a request to start a batch while batchProcessing is true leaves the
\* queue and the in-flight set unchanged, whichever entry point issues it.
C7_StartWhileRunningIsNoOp ==
    [][(/\ batchProcessing
        /\ \/ handleBatchProcess
           \/ \E paperId \in PaperIds, ok \in BOOLEAN :
                  handlePaperImportedResumed(paperId, TRUE, ok, ServerPapers, NumPapers))
       => UNCHANGED <<processingQueue, processingPaperIds>>]_vars

\* C8: a failed completion acts on the coordinator as a successful one: the
\* ID leaves the in-flight set, is not queued again, the next queued ID is
\* admitted, and the batch keeps running while IDs are queued or in flight.
C8_FailureFreesSlotLikeSuccess ==
    [][\A paperId \in PaperIds :
         handleProcessingDone(paperId, FALSE) =>
            LET ok == FillSlots(processingQueue,
                                RemoveDone(processingPaperIds, paperId), admitted)
            IN  /\ paperId \notin processingPaperIds'
                /\ paperId \in Range(processingQueue') =>
                       paperId \in Range(processingQueue)
                /\ (/\ processingQueue # <<>>
                    /\ Cardinality(processingPaperIds \ {paperId}) < MAX_CONCURRENT)
                   => Head(processingQueue) \in processingPaperIds'
                /\ (processingQueue' # <<>> \/ processingPaperIds' # {}) =>
                       batchProcessing' = batchProcessing
                /\ processingQueue' = ok.queue
                /\ processingPaperIds' = ok.ids]_vars

\* A failure was reported for a paper in flight, and the queued paper took its slot.
C8_Witness ==
    /\ lastDone = <<FALSE, TRUE>>
    /\ Len(admitted) > MAX_CONCURRENT
    /\ Cardinality(processingPaperIds) = MAX_CONCURRENT
    /\ batchProcessing

\* C9: a completion report for an ID that is not in flight (a second report
\* of the same ID among them) leaves queue, in-flight set and flag unchanged.
C9_RepeatedReportChangesNothing ==
    [][\A paperId \in PaperIds :
         (/\ paperId \notin processingPaperIds
          /\ \E success \in BOOLEAN : handleProcessingDone(paperId, success))
         => UNCHANGED <<processingQueue, processingPaperIds, batchProcessing>>]_vars

----------------------------------------------------------------------------
(* One card's stream session on its own *)

\* What the server sends in this specification: the first two progress
\* events of a run, one chunk of thought, one error, a result and a done.
SessionEvents ==
    StreamEvents({ProgressEvent("started", "", "start"),
                  ProgressEvent("workflow_started", "", "workflow")},
                 {"Hello world"},
                 {[error |-> "timeout", message |-> "timed out"]})

SessionSpecInit ==
    CoordInit /\ ListLoaded /\ \E status \in Statuses : SessionInit(status)

SessionNext ==
    \/ handleRetry
    \/ \E i \in 1..Len(streams) : responseOk(i)
    \/ \E i \in 1..Len(streams) : responseNotOk(i, "500")
    \/ \E i \in 1..Len(streams) : errorTextRead(i, "")
    \/ \E i \in 1..Len(streams) : errorTextFailed(i, NetworkError)
    \/ \E i \in 1..Len(streams), error \in ConnectErrors : connectFailed(i, error)
    \/ \E i \in 1..Len(streams), event \in SessionEvents : recordRead(i, event)
    \/ \E i \in 1..Len(streams) : streamClosed(i)
    \/ \E i \in 1..Len(streams) : readFailed(i, NetworkError)
    \/ onUnmounted
    \/ \E newStatus \in Statuses : processingStatusChanged(newStatus)

SessionSpec == SessionSpecInit /\ [][SessionNext]_vars

----------------------------------------------------------------------------
(* Claims about the stream session *)

\* C10: at most one analysis stream opened by handleRetry is open (neither
\* ended nor aborted) at any time.
C10_AtMostOneOpenStream == Cardinality(OpenStreams) <= 1

\* C11: a handleRetry call made while isStreaming or isRetrying is true, or
\* while the effective status (localStatus, else the prop) is "processing",
\* opens no stream and leaves thought, steps, error, result and local status
\* as they were.
C11_BlockedRetryIsNoOp ==
    [][ ( /\ handleRetry
          /\ \/ isStreaming
             \/ isRetrying
             \/ (IF localStatus # NoValue THEN localStatus ELSE processingStatus)
                    = "processing" )
        => /\ streams' = streams
           /\ UNCHANGED <<streamThought, streamProgress, streamError,
                          streamResult, localStatus>> ]_vars

\* A retry was ignored although no stream of the session is running: only
\* the paper's status says processing, and the card holds an earlier
\* stream's thought.
C11_Witness ==
    /\ retryIgnored
    /\ ~isStreaming /\ ~isRetrying
    /\ localStatus = NoValue /\ processingStatus = "processing"
    /\ streamThought # ""

\* The state of the session the card shows.
sessionState ==
    <<isStreaming, isRetrying, streamProgress, streamThought, streamError,
      streamResult, localStatus>>

\* C21: after the abort handle of the session has been called (the card has
\* been unmounted with a stream opened), no callback runs any more: the
\* streaming flag, steps, thought, error, result and local status stay as
\* they were when it was called.
C21_NoChangeAfterAbort ==
    [][ (~mounted /\ Len(streams) > 0) => UNCHANGED sessionState ]_vars

\* A step in which a stream of the session delivers a done event.
DoneStep ==
    \E i \in 1..Len(streams) : recordRead(i, [type |-> "done", data |-> "done"])

C26_StreamThenLocalThenServer ==
    LET deciding == IF localStatus # NoValue THEN localStatus ELSE processingStatus
    IN  /\ isStreaming
              => statusTag = "streaming" /\ statusLabel = "Dify analyzing..."
        /\ ~isStreaming
              => /\ statusTag = (CASE deciding = "processing" -> "processing"
                                  [] deciding = "failed" -> "failed"
                                  [] OTHER -> "pending")
                 /\ deciding = "processing" => statusLabel = "Dify analyzing..."
                 /\ deciding = "failed"
                        => statusLabel \notin {"Dify analyzing...",
                                               "Queued for analysis"}
                 /\ deciding \notin {"processing", "failed"}
                        => statusLabel = "Queued for analysis"

\* No stream runs, the local status says failed and the paper prop says
\* processing: the card is tagged failed and shows the stored error.
C26_Witness ==
    /\ ~isStreaming
    /\ localStatus = "failed" /\ processingStatus = "processing"
    /\ statusTag = "failed"
    /\ streamError # <<>> /\ statusLabel = getStreamErrorMessage(streamError[1])

----------------------------------------------------------------------------
(* The error a card displays, under error events of every kind *)

\* The kinds the server names, one it does not ("xyz"), and none.
ErrorKinds == {"entity_too_large", "timeout", "rate_limit", "dify_error", "xyz", ""}

ErrorMessages == {"", "upstream said no"}

ErrorEvents == {[error |-> kind, message |-> message] :
                    kind \in ErrorKinds, message \in ErrorMessages}

LabelSpecEvents == StreamEvents({}, {}, ErrorEvents)

LabelSpecInit == CoordInit /\ ListLoaded /\ SessionInit("pending")

LabelNext ==
    \/ handleRetry
    \/ \E i \in 1..Len(streams) : responseOk(i)
    \/ \E i \in 1..Len(streams), error \in ConnectErrors : connectFailed(i, error)
    \/ \E i \in 1..Len(streams), event \in LabelSpecEvents : recordRead(i, event)
    \/ \E i \in 1..Len(streams) : streamClosed(i)

LabelSpec == LabelSpecInit /\ [][LabelNext]_vars

\* C22: the message displayed for a stored error is the text of its kind
\* for entity_too_large, timeout and rate_limit, the Dify text followed by
\* the error's message for dify_error, and for every other kind the error's
\* own message, or the unknown-error text when that message is empty; there
\* is a message for every kind.
C22_ErrorMessageByKind ==
    streamError # <<>> =>
        LET error == streamError[1]
            shown == getStreamErrorMessage(error)
        IN  /\ error.error = "entity_too_large"
                   => shown = "Paper too long, process it manually"
            /\ error.error = "timeout" => shown = "Analysis timed out, retry later"
            /\ error.error = "rate_limit" => shown = "Too many requests, retry later"
            /\ error.error = "dify_error"
                   => shown = "Dify service error: " \o error.message
            /\ error.error \notin {"entity_too_large", "timeout", "rate_limit",
                                   "dify_error"}
                   => /\ error.message # "" => shown = error.message
                      /\ error.message = "" => shown = "Unknown error"
            /\ shown # ""

\* The card shows the fallback for an error of a kind the client does not
\* know and that carries no message.
C22_Witness ==
    /\ streamError = <<[error |-> "xyz", message |-> ""]>>
    /\ ~isStreaming /\ localStatus = "failed"
    /\ statusLabel = "Unknown error"

----------------------------------------------------------------------------
(* The paper list store on its own *)

\* The states of a paper the server answers with here.
ListStates == {Unprocessed("pending"), Processed("done")}

ListSpecInit == CoordInit /\ SessionInit("pending") /\ ListInit("mounted", <<>>, <<>>)

ListNext ==
    \/ handleSettingsSaved
    \/ \E ok \in BOOLEAN, papersData \in PaperLists(ListedIds, ListStates),
          statsData \in Totals :
           loadDataSettled(ok, papersData, statsData)
    \/ \E paperId \in ListedIds : updatePaperById(paperId)
    \/ \E paperId \in ListedIds, ok \in BOOLEAN, state \in ListStates :
           updatePaperByIdFetched(paperId, ok, PaperRecord(paperId, state))
    \/ \E paperId \in ListedIds, ok \in BOOLEAN, newStats \in Totals :
           updatePaperByIdStats(paperId, ok, newStats)
    \/ \E paperId \in ListedIds : handlePaperDeleted(paperId)

ListSpec == ListSpecInit /\ [][ListNext]_vars

----------------------------------------------------------------------------
(* Claims about the paper list store *)

\* A step of the updatePaperById call for paperId: its start or one of its
\* two continuations.
UpdateStep(paperId) ==
    \/ updatePaperById(paperId)
    \/ \E ok \in BOOLEAN, state \in ListStates :
           updatePaperByIdFetched(paperId, ok, PaperRecord(paperId, state))
    \/ \E ok \in BOOLEAN, newStats \in Totals :
           updatePaperByIdStats(paperId, ok, newStats)

\* C12: no step of a point-update changes the length of the list or the
\* sequence of IDs in it, and every entry with another ID stays as it was, with
\* other point-updates suspended and resolving in any order.
C12_UpdateKeepsOrder ==
    [][ \A paperId \in ListedIds :
           UpdateStep(paperId)
           => /\ Len(papers') = Len(papers)
              /\ PaperIdsOf(papers') = PaperIdsOf(papers)
              /\ \A i \in 1..Len(papers) :
                     papers[i].id # paperId => papers'[i] = papers[i] ]_vars

\* A fetched record was stored in a list of several papers while another
\* point-update was suspended.
C12_Witness ==
    /\ Len(papers) >= 2
    /\ lastListOp = <<"update", TRUE>>
    /\ Cardinality(UpdatesSuspended) >= 2

\* C13: when the fetched record of a point-update arrives and no entry of
\* the list has its ID, the list stays as it is; a paper removed while the
\* fetch was pending is not put back.
C13_UpdateOfMissingIsNoOp ==
    [][ \A paperId \in ListedIds :
           ( /\ \E ok \in BOOLEAN, state \in ListStates :
                    updatePaperByIdFetched(paperId, ok, PaperRecord(paperId, state))
             /\ \A i \in 1..Len(papers) : papers[i].id # paperId )
           => papers' = papers ]_vars

\* The record of a paper that is not in the list arrived; the list holds
\* other papers.
C13_Witness ==
    /\ papers # <<>>
    /\ lastListOp = <<"update", FALSE>>

\* C14: handlePaperDeleted removes exactly the entry with the ID and keeps the
\* others in their order, and where a total is cached it becomes the total
\* minus one, or zero if that is negative; the cached total is never negative.
C14_RemoveDeletesOneAndClamps ==
    /\ [][ \A paperId \in ListedIds :
              handlePaperDeleted(paperId)
              => /\ LET at == {i \in 1..Len(papers) : papers[i].id = paperId}
                    IN  IF at = {}
                        THEN papers' = papers
                        ELSE \E i \in at :
                                papers' = SubSeq(papers, 1, i - 1)
                                            \o SubSeq(papers, i + 1, Len(papers))
                 /\ stats # <<>>
                      => stats' = <<IF stats[1] >= 1 THEN stats[1] - 1 ELSE 0>>
                 /\ stats = <<>> => stats' = <<>> ]_vars
    /\ [](stats # <<>> => stats[1] >= 0)

\* The middle paper of three was removed while the cached total was zero.
C14_Witness ==
    /\ lastListOp = <<"remove", TRUE, TRUE>>
    /\ PaperIdsOf(papers) = <<NumListed, NumListed - 2>>

----------------------------------------------------------------------------
(* The recovery scan with the coordinator it starts *)

\* The states of a paper of the initially loaded list.
RecoveryStates ==
    {Unprocessed("pending"), Unprocessed("processing"),
     Processed("processing"), Processed("done")}

RecoverySpecInit == CoordInit /\ SessionInit("pending") /\ ListInit("created", <<>>, <<>>)

\* The server's papers stay as they were loaded; no batch is started by hand.
RecoveryNext ==
    \/ onMounted
    \/ \E ok \in BOOLEAN, papersData \in PaperLists(ListedIds, RecoveryStates) :
           onMountedLoaded(ok, papersData, Len(papersData))
    \/ recoveryTimerFired
    \/ handleBatchProcessResumed(PendingListing(papers))
    \/ handleBatchProcessFailed
    \/ \E paperId \in ListedIds, success \in BOOLEAN :
           handleProcessingDone(paperId, success)
    \/ \E ok \in BOOLEAN : loadDataSettled(ok, papers, Len(papers))

RecoverySpec == RecoverySpecInit /\ [][RecoveryNext]_vars

\* C15: once the recovery scan has run and its timer, if any, has fired: if
\* the loaded list has no stuck paper (processing and not processed) no batch
\* was started, and a batch that was seeded was seeded with exactly the IDs of
\* the stuck papers.
C15_RecoverySeedsExactlyStuck ==
    mountStage = "mounted"
    => /\ StuckIds(papers) = {}
            => ~batchProcessing /\ batchCalls = 0 /\ seed = <<>>
       /\ seed # <<>> => Range(seed) = StuckIds(papers)

----------------------------------------------------------------------------
(* The step pipeline of one session under every node event *)

\* The names node events carry: every label of the template and a name
\* that is no label.
NodeNames ==
    {WORKFLOW_STEPS[i].label : i \in 1..Len(WORKFLOW_STEPS)} \cup {"Unknown node"}

NodeStarted(nodeName) == ProgressEvent("node_started", RunMarker, nodeName)

NodeFinished(nodeName) == ProgressEvent("node_finished", FinishMarker, nodeName)

ProgressEvents ==
    {ProgressEvent("started", "", "start"),
     ProgressEvent("workflow_started", "", "workflow")}
    \cup {NodeStarted(n) : n \in NodeNames}
    \cup {NodeFinished(n) : n \in NodeNames}

\* What the server sends in this specification: progress events in any
\* order, and results.
ProgressSpecEvents ==
    {[type |-> "progress", data |-> e] : e \in ProgressEvents}
    \cup {[type |-> "result", data |-> "result"]}

ProgressSpecInit == CoordInit /\ ListLoaded /\ SessionInit("pending")

ProgressNext ==
    \/ handleRetry
    \/ \E i \in 1..Len(streams) : responseOk(i)
    \/ \E i \in 1..Len(streams), event \in ProgressSpecEvents : recordRead(i, event)
    \/ \E i \in 1..Len(streams) : streamClosed(i)

ProgressSpec == ProgressSpecInit /\ [][ProgressNext]_vars

----------------------------------------------------------------------------
(* Claims about the step pipeline *)

\* A step in which a stream delivers the progress event.
ProgressStep(event) ==
    \E i \in 1..Len(streams) : recordRead(i, [type |-> "progress", data |-> event])

\* The index of the step with the label, 0 if there is none.
LabelIndex(nodeName) ==
    FindIndex({i \in 1..Len(streamProgress) : streamProgress[i].label = nodeName})

GroupOf(k) == streamProgress[k].group

\* C16: a node_finished event names a step of a parallel group in which
\* another member is not done: that step becomes done and every other step,
\* siblings and ungrouped steps alike, stays as it was.
C16_FinishInOpenGroupMarksOneStep ==
    [][ \A n \in NodeNames :
           LET k == LabelIndex(n)
           IN  ( /\ k > 0
                 /\ GroupOf(k) # NoGroup
                 /\ \E j \in 1..Len(streamProgress) :
                        /\ j # k
                        /\ GroupOf(j) = GroupOf(k)
                        /\ streamProgress[j].status # "done"
                 /\ ProgressStep(NodeFinished(n)) )
               => streamProgress' = [streamProgress EXCEPT ![k].status = "done"] ]_vars

\* Parse File is done while its sibling is still active and the step after
\* the group still pending.
C16_Witness ==
    /\ Len(streamProgress) = Len(WORKFLOW_STEPS)
    /\ streamProgress[4].status = "done"
    /\ streamProgress[5].status = "active"
    /\ streamProgress[6].status = "pending"

\* C17: a node_finished event names the one member of a parallel group that
\* is not done yet: that step becomes done, the first pending step without a
\* group becomes active, and nothing else changes.
C17_FinishOfLastMemberActivatesNext ==
    [][ \A n \in NodeNames :
           LET k == LabelIndex(n)
           IN  ( /\ k > 0
                 /\ GroupOf(k) # NoGroup
                 /\ streamProgress[k].status # "done"
                 /\ \A j \in 1..Len(streamProgress) :
                        (j # k /\ GroupOf(j) = GroupOf(k))
                            => streamProgress[j].status = "done"
                 /\ ProgressStep(NodeFinished(n)) )
               => LET pendingUngrouped ==
                          {i \in 1..Len(streamProgress) :
                              /\ streamProgress[i].status = "pending"
                              /\ GroupOf(i) = NoGroup}
                  IN  IF pendingUngrouped = {}
                      THEN streamProgress' =
                               [streamProgress EXCEPT ![k].status = "done"]
                      ELSE LET next == CHOOSE i \in pendingUngrouped :
                                           \A j \in pendingUngrouped : i <= j
                           IN  streamProgress' =
                                   [streamProgress EXCEPT ![k].status = "done",
                                                          ![next].status = "active"] ]_vars

\* Both members of the group are done, the step after the group is active
\* and the last step pending.
C17_Witness ==
    /\ Len(streamProgress) = Len(WORKFLOW_STEPS)
    /\ streamProgress[4].status = "done"
    /\ streamProgress[5].status = "done"
    /\ streamProgress[6].status = "active"
    /\ streamProgress[7].status = "pending"

\* C18: a progress event with status started makes the step list, whatever it
\* was, the template's steps in the template's order, the first active and
\* all others pending.
C18_StartedResetsToTemplate ==
    [][ ProgressStep(ProgressEvent("started", "", "start"))
        => /\ Len(streamProgress') = Len(WORKFLOW_STEPS)
           /\ \A i \in 1..Len(WORKFLOW_STEPS) :
                  /\ streamProgress'[i].label = WORKFLOW_STEPS[i].label
                  /\ streamProgress'[i].status = IF i = 1 THEN "active" ELSE "pending" ]_vars

\* The list is the fresh template in a session that already stored a result,
\* which had marked whatever steps there were done.
C18_Witness ==
    /\ streamResult # NoValue
    /\ Len(streamProgress) = Len(WORKFLOW_STEPS)
    /\ streamProgress[1].status = "active"
    /\ \A i \in 2..Len(streamProgress) : streamProgress[i].status = "pending"

\* C19 as claimed: a node_started event names the label of step k: every
\* step before k without a group becomes done, every step before k with a
\* group keeps its status, step k becomes active, and the steps after k
\* outside k's group are unchanged.
C19_NodeStartedAsClaimed ==
    [][ \A n \in NodeNames :
           LET k == LabelIndex(n)
           IN  (k > 0 /\ ProgressStep(NodeStarted(n)))
               => /\ Len(streamProgress') = Len(streamProgress)
                  /\ \A i \in 1..Len(streamProgress) :
                        /\ (i < k /\ GroupOf(i) = NoGroup)
                               => streamProgress'[i].status = "done"
                        /\ (i < k /\ GroupOf(i) # NoGroup)
                               => streamProgress'[i] = streamProgress[i]
                        /\ i = k => streamProgress'[i].status = "active"
                        /\ (i > k /\ (GroupOf(k) = NoGroup \/ GroupOf(i) # GroupOf(k)))
                               => streamProgress'[i] = streamProgress[i] ]_vars

\* C19 amended: as claimed, but a step before k that is a pending member of
\* k's own group becomes active; the other grouped steps before k keep their
\* status.
C19_NodeStartedActivatesOwnGroup ==
    [][ \A n \in NodeNames :
           LET k == LabelIndex(n)
           IN  (k > 0 /\ ProgressStep(NodeStarted(n)))
               => /\ Len(streamProgress') = Len(streamProgress)
                  /\ \A i \in 1..Len(streamProgress) :
                        /\ (i < k /\ GroupOf(i) = NoGroup)
                               => streamProgress'[i].status = "done"
                        /\ (i < k /\ GroupOf(i) # NoGroup)
                               => streamProgress'[i] =
                                      IF /\ GroupOf(i) = GroupOf(k)
                                         /\ streamProgress[i].status = "pending"
                                      THEN [streamProgress[i] EXCEPT !.status = "active"]
                                      ELSE streamProgress[i]
                        /\ i = k => streamProgress'[i].status = "active"
                        /\ (i > k /\ (GroupOf(k) = NoGroup \/ GroupOf(i) # GroupOf(k)))
                               => streamProgress'[i] = streamProgress[i] ]_vars

\* started, then node_started for the second step: done, active, and the
\* rest pending.
C19_Witness ==
    /\ Len(streamProgress) = Len(WORKFLOW_STEPS)
    /\ streamProgress[1].status = "done"
    /\ streamProgress[2].status = "active"
    /\ \A i \in 3..Len(streamProgress) : streamProgress[i].status = "pending"

----------------------------------------------------------------------------
(* The thought text of one session, with the stream read in pieces *)

ThoughtSpecInit == CoordInit /\ ListLoaded /\ SessionInit("pending")

\* The server sends thinking records and then done; reads return any
\* number of the units sent.
ThoughtNext ==
    \/ handleRetry
    \/ \E i \in 1..Len(streams) : responseOk(i)
    \/ \E i \in 1..Len(streams), chunk \in Chunks : serverSends(i, "thinking", chunk)
    \/ \E i \in 1..Len(streams) : serverSends(i, "done", "{}")
    \/ \E i \in 1..Len(streams) : \E n \in 1..Len(streams[i].wire) : chunkRead(i, n)
    \/ \E i \in 1..Len(streams) : streamClosed(i)

ThoughtSpec == ThoughtSpecInit /\ [][ThoughtNext]_vars

\* The units of one record on the wire.
FrameLen == Len(Frame("", ""))

\* The chunks of the records of stream i that reads have returned whole, in
\* the order the server sent them, one after the other.
DeliveredThought(i) ==
    LET sent == streams[i].sent
        whole == (FrameLen * Len(sent) - Len(streams[i].wire)) \div FrameLen
    IN  AppendThoughts("", ThinkingOf(SubSeq(sent, 1, whole)))

\* C20: the thought text is the chunks of the thinking records delivered so
\* far, each once and in the order sent, one after the other, however the
\* records are split across reads: in the accumulator of every stream, and in
\* the text of the session for the stream it opened last.
C20_ThoughtIsConcatenationOfChunks ==
    /\ \A i \in 1..Len(streams) : streams[i].accumulatedThought = DeliveredThought(i)
    /\ Len(streams) > 0 => streamThought = DeliveredThought(Len(streams))

\* "Hello " then "world" gave "Hello world", the records having come in
\* pieces: the stream's next record is held in part in the buffer.
C20_Witness ==
    /\ streamThought = "Hello world"
    /\ \E i \in 1..Len(streams) :
          /\ streams[i].accumulatedThought = "Hello world"
          /\ streams[i].buffer # <<>>

----------------------------------------------------------------------------
(* How a stream of one session ends: result, error and done events after
   progress events of every kind *)

\* What the server sends in this specification: the start of a run, the
\* start of each step of the parallel group and of the step after it, and
\* the three events that end a run.
OutcomeSpecEvents ==
    StreamEvents({ProgressEvent("started", "", "start"),
                  ProgressEvent("workflow_started", "", "workflow"),
                  NodeStarted("Parse File"),
                  NodeStarted("Knowledge retrieval"),
                  NodeStarted("LLM")},
                 {},
                 {[error |-> "timeout", message |-> "timed out"]})

OutcomeSpecInit == CoordInit /\ ListLoaded /\ SessionInit("pending")

OutcomeNext ==
    \/ handleRetry
    \/ \E i \in 1..Len(streams) : responseOk(i)
    \/ \E i \in 1..Len(streams), event \in OutcomeSpecEvents : recordRead(i, event)
    \/ \E i \in 1..Len(streams) : streamClosed(i)

OutcomeSpec == OutcomeSpecInit /\ [][OutcomeNext]_vars

\* C23: an error event stores the error, turns every step that is active
\* into error and leaves every other step as it is, sets the local status to
\* failed and clears isStreaming and isRetrying.
C23_ErrorEventFailsActiveSteps ==
    [][ \A i \in 1..Len(streams) : \A event \in OutcomeSpecEvents :
          (event.type = "error" /\ recordRead(i, event))
          => /\ streamError' = <<event.data>>
             /\ Len(streamProgress') = Len(streamProgress)
             /\ \A k \in 1..Len(streamProgress) :
                   streamProgress'[k] =
                       IF streamProgress[k].status = "active"
                       THEN [streamProgress[k] EXCEPT !.status = "error"]
                       ELSE streamProgress[k]
             /\ localStatus' = "failed"
             /\ ~isStreaming' /\ ~isRetrying' ]_vars

\* An error event came while one step was active, after steps that were
\* done and before steps that were pending.
C23_Witness ==
    /\ streamError = <<[error |-> "timeout", message |-> "timed out"]>>
    /\ localStatus = "failed" /\ ~isStreaming /\ ~isRetrying
    /\ \E a, b, c \in 1..Len(streamProgress) :
          /\ streamProgress[a].status = "done"
          /\ streamProgress[b].status = "error"
          /\ streamProgress[c].status = "pending"

\* C25: a result event stores the result and makes every step of the list
\* done, whatever its status was.
C25_ResultFinishesEveryStep ==
    [][ \A i \in 1..Len(streams) : \A event \in OutcomeSpecEvents :
          (event.type = "result" /\ recordRead(i, event))
          => /\ streamResult' = event.data
             /\ Len(streamProgress') = Len(streamProgress)
             /\ \A k \in 1..Len(streamProgress) :
                   streamProgress'[k] = [streamProgress[k] EXCEPT !.status = "done"] ]_vars

\* The result came while steps of the list were still pending: the stream
\* that is being read has a result and a list whose steps are all done,
\* the step after the one that was started included.
C25_Witness ==
    /\ isStreaming
    /\ streamResult = "result"
    /\ Len(streamProgress) = Len(WORKFLOW_STEPS)
    /\ \A k \in 1..Len(streamProgress) : streamProgress[k].status = "done"

----------------------------------------------------------------------------
(* Records the client does not dispatch, among those it does *)

\* A thinking record whose data is not JSON, one without data, one whose
\* payload is null, and a record of a type the client has no case for.
SkippedRecords ==
    {[eventType |-> "thinking", data |-> NotJSON],
     [eventType |-> "thinking", data |-> ""],
     [eventType |-> "thinking", data |-> NoValue],
     [eventType |-> "ping", data |-> "{}"]}

RecordSpecInit == CoordInit /\ ListLoaded /\ SessionInit("pending")

RecordNext ==
    \/ handleRetry
    \/ \E i \in 1..Len(streams) : responseOk(i)
    \/ \E i \in 1..Len(streams), chunk \in Chunks : serverSends(i, "thinking", chunk)
    \/ \E i \in 1..Len(streams), record \in SkippedRecords :
          serverSends(i, record.eventType, record.data)
    \/ \E i \in 1..Len(streams) : \E n \in 1..Len(streams[i].wire) : chunkRead(i, n)
    \/ \E i \in 1..Len(streams) : streamClosed(i)

RecordSpec == RecordSpecInit /\ [][RecordNext]_vars

\* The units of the records on the wire.
RECURSIVE UnitsOf(_)
UnitsOf(sent) ==
    IF sent = <<>> THEN 0
    ELSE (IF Head(sent).data = "" THEN Len(FrameWithoutData(""))
                                  ELSE Len(Frame("", "")))
         + UnitsOf(Tail(sent))

\* The records of stream i that reads have returned whole, in the order the
\* server sent them.
ReadWhole(i) ==
    LET sent == streams[i].sent
        read == UnitsOf(sent) - Len(streams[i].wire)
        whole == CHOOSE k \in 0..Len(sent) :
                    /\ UnitsOf(SubSeq(sent, 1, k)) <= read
                    /\ k < Len(sent) => UnitsOf(SubSeq(sent, 1, k + 1)) > read
    IN  SubSeq(sent, 1, whole)

\* C27: a record whose data is not JSON, that has no data, or whose type
\* the client does not know invokes no callback and does not end the
\* reading: no error is stored, the session goes on streaming, and the
\* thought is that of the well-formed thinking records read so far, the ones
\* after such a record included.
C27_SkippedRecordsLeaveStreamIntact ==
    /\ streamError = <<>>
    /\ \A i \in 1..Len(streams) :
          streams[i].accumulatedThought
              = AppendThoughts("", ThinkingOf(Dispatchable(ReadWhole(i))))
    /\ Len(streams) > 0
          => streamThought
                 = AppendThoughts("", ThinkingOf(Dispatchable(ReadWhole(Len(streams)))))
    /\ Len(streams) > 0
          => isStreaming /\ localStatus = "processing" /\ refreshSignals = 0

\* A record that is not JSON, then one of an unknown type, then a thinking
\* record: all read, the thought of the third delivered, no error stored
\* and the stream still being read.
C27_Witness ==
    /\ streamError = <<>> /\ isStreaming
    /\ streamThought = "Hello "
    /\ \E i \in 1..Len(streams) :
          /\ streams[i].phase = "reading"
          /\ streams[i].sent = << [eventType |-> "thinking", data |-> NotJSON],
                                  [eventType |-> "ping", data |-> "{}"],
                                  [eventType |-> "thinking", data |-> "Hello "] >>
          /\ streams[i].wire = <<>>

----------------------------------------------------------------------------
(* How a stream of one session is opened: the response and its failures *)

\* The statuses of responses that are not ok, and the bodies they carry.
ErrorStatuses == {"404", "500"}
ErrorTexts == {"", "Paper not found"}

\* What reader.read() rejects with when the connection breaks: an error
\* without a message and one with.
ReadFailures == {NetworkError, [name |-> "TypeError", message |-> "network error"]}

\* What the server sends in this specification before the stream breaks.
ConnectSpecEvents ==
    {[type |-> "progress", data |-> ProgressEvent("started", "", "start")],
     [type |-> "thinking", data |-> "Hello world"]}

ConnectSpecInit == CoordInit /\ ListLoaded /\ SessionInit("pending")

ConnectNext ==
    \/ handleRetry
    \/ \E i \in 1..Len(streams) : responseOk(i)
    \/ \E i \in 1..Len(streams), status \in ErrorStatuses : responseNotOk(i, status)
    \/ \E i \in 1..Len(streams), errorText \in ErrorTexts : errorTextRead(i, errorText)
    \/ \E i \in 1..Len(streams) : errorTextFailed(i, NetworkError)
    \/ \E i \in 1..Len(streams), error \in ConnectErrors : connectFailed(i, error)
    \/ \E i \in 1..Len(streams), event \in ConnectSpecEvents : recordRead(i, event)
    \/ \E i \in 1..Len(streams), error \in ReadFailures : readFailed(i, error)
    \/ \E i \in 1..Len(streams) : streamClosed(i)
    \/ onUnmounted

ConnectSpec == ConnectSpecInit /\ [][ConnectNext]_vars

\* C28 as stated: a stream whose response was not ok ends with the error
\* callback called with kind http_<status>: when it ends without having
\* been aborted, the stored error has that kind.
C28_NotOkAlwaysReportsHttpStatus ==
    [][ \A i \in 1..Len(streams) :
          (streams[i].phase = "errorText" /\ streams'[i].phase = "ended")
          => /\ streamError' # <<>>
             /\ streamError'[1].error = "http_" \o streams[i].status ]_vars

\* C28, amended: when the body of a response that is not ok has been read,
\* the error callback is called once with kind http_<status> and the body
\* as message, or the status message when the body is empty, and only the
\* effects of that callback follow; when reading the body fails the one
\* error has kind stream_error; when the stream is aborted first nothing
\* changes; in each case the stream has ended and is never read.
C28_NotOkReportsOnceBodyIsRead ==
    [][ \A i \in 1..Len(streams) :
          /\ \A errorText \in ErrorTexts :
                errorTextRead(i, errorText)
                => /\ streamError'
                        = << [error |-> "http_" \o streams[i].status,
                              message |-> IF errorText = ""
                                          THEN "HTTP Error: " \o streams[i].status
                                          ELSE errorText] >>
                   /\ localStatus' = "failed" /\ ~isStreaming' /\ ~isRetrying'
                   /\ UNCHANGED <<streamThought, streamResult, refreshSignals>>
          /\ errorTextFailed(i, NetworkError)
                => streamError' # <<>> /\ streamError'[1].error = "stream_error"
          /\ (streams[i].phase = "errorText" /\ streams'[i].phase = "aborted")
                => UNCHANGED sessionState
          /\ streams[i].phase = "errorText"
                => streams'[i].phase \in {"errorText", "ended", "aborted"}
          /\ (streams[i].status # "" /\ streams[i].phase \in {"ended", "aborted"})
                => streams'[i] = streams[i] ]_vars

\* A response with status 404 and an empty body was reported, and the
\* stream has ended.
C28_Witness ==
    /\ streamError = <<[error |-> "http_404", message |-> "HTTP Error: 404"]>>
    /\ localStatus = "failed" /\ ~isStreaming
    /\ \E i \in 1..Len(streams) :
          streams[i].status = "404" /\ streams[i].phase = "ended"

\* C29: a read of a stream that fails without an abort calls the error
\* callback once, with kind stream_error and the message of the failure or
\* the fixed one when it has none: the error is stored, active steps become
\* error, the local status failed, and the stream has ended; the abort of
\* a stream by the caller changes nothing of the session; and once no stream
\* of the session is open, nothing of the session changes until a retry
\* opens one.
C29_ReadFailureReportedUnlessAborted ==
    [][ /\ \A i \in 1..Len(streams) : \A error \in ReadFailures :
              readFailed(i, error)
              => /\ streamError'
                      = << [error |-> "stream_error",
                            message |-> IF error.message = ""
                                        THEN "Stream processing failed"
                                        ELSE error.message] >>
                 /\ localStatus' = "failed" /\ ~isStreaming' /\ ~isRetrying'
                 /\ \A k \in 1..Len(streamProgress) :
                       streamProgress'[k].status
                           = IF streamProgress[k].status = "active"
                             THEN "error" ELSE streamProgress[k].status
                 /\ UNCHANGED <<streamThought, streamResult, refreshSignals>>
                 /\ streams'[i].phase = "ended"
        /\ onUnmounted => UNCHANGED <<sessionState, refreshSignals>>
        /\ OpenStreams = {}
              => \/ UNCHANGED <<sessionState, refreshSignals>>
                 \/ Len(streams') = Len(streams) + 1 ]_vars

\* The connection broke after the first step had started and a chunk of
\* thought had been read: the failure's message is stored, the step is in
\* error and the stream has ended.
C29_Witness ==
    /\ streamError = <<[error |-> "stream_error", message |-> "network error"]>>
    /\ streamThought = "Hello world"
    /\ Len(streamProgress) > 0 /\ streamProgress[1].status = "error"
    /\ localStatus = "failed" /\ ~isStreaming
    /\ OpenStreams = {}

----------------------------------------------------------------------------
(* The fetch of new papers and the batch it starts *)

\* The pending-ID request answers with no ID or with the IDs of all papers.

FetchNext ==
    \/ handleFetch
    \/ \E i \in 1..Len(fetches), saved \in SavedCounts : fetchDone(i, saved)
    \/ \E i \in 1..Len(fetches) : fetchError(i)
    \/ \E i \in 1..Len(fetches), ok \in BOOLEAN :
           fetchDoneResumed(i, ok, ServerPapers, NumPapers)
    \/ \E i \in 1..Len(fetches) : fetchTimerFired(i)
    \/ handleBatchProcess
    \/ \E pendingIds \in {<<>>, PaperIdsOf(ServerPapers)} :
           handleBatchProcessResumed(pendingIds)
    \/ handleBatchProcessFailed
    \/ \E paperId \in PaperIds, success \in BOOLEAN :
           handleProcessingDone(paperId, success)
    \/ \E ok \in BOOLEAN : loadDataSettled(ok, ServerPapers, NumPapers)

FetchSpec == Init /\ [][FetchNext]_vars

\* What a step does to the batch: nothing, or the start of handleBatchProcess.
BatchUntouched ==
    UNCHANGED <<batchProcessing, processingQueue, processingPaperIds, batchCalls>>

\* C30: the done event of a fetch clears the fetching flag and starts the
\* reload of the list without touching the batch; when the reload has
\* settled, a fetch whose done event had saved > 0 waits for its timer and
\* one with saved = 0 is finished, again without touching the batch; the
\* timer's step is a call of handleBatchProcess, and it is the only step of
\* a fetch that touches the batch; a finished fetch takes no further step.
C30_BatchTriggeredIffSaved ==
    [][ \A i \in 1..Len(fetches) :
          /\ (fetches[i].stage = "streaming" /\ fetches'[i].stage = "loading")
                => ~fetching' /\ loading' /\ BatchUntouched
          /\ (fetches[i].stage = "loading" /\ fetches'[i].stage # "loading")
                => /\ ~loading'
                   /\ fetches'[i].stage
                          = IF fetches[i].saved > 0 THEN "timer" ELSE "finished"
                   /\ BatchUntouched
          /\ (fetches[i].stage = "timer" /\ fetches'[i].stage # "timer")
                => /\ fetches'[i].stage = "triggered"
                   /\ fetches[i].saved > 0
                   /\ IF batchProcessing
                      THEN BatchUntouched
                      ELSE batchProcessing' /\ batchCalls' = batchCalls + 1
          /\ fetches[i].stage \in {"finished", "triggered", "failed"}
                => fetches'[i] = fetches[i] ]_vars

\* A fetch saved two papers: the list was reloaded, the timer fired and
\* the batch it started is running.
C30_Witness ==
    /\ ~fetching /\ ~loading
    /\ batchProcessing /\ processingPaperIds # {}
    /\ \E i \in 1..Len(fetches) : fetches[i] = [stage |-> "triggered", saved |-> 2]

----------------------------------------------------------------------------
(* The callbacks of a stream do not depend on how it is cut into reads *)

\* C31: whatever the number of units a read returns, the read dispatches the
\* records whose last unit it returned, each once and in the order sent, and
\* no other: the events of the read are these records, the thought grows by
\* their chunks, and the session is refreshed exactly when done is one of them.
C31_CallbacksIndependentOfReads ==
    [][\A i \in 1..Len(streams) :
          \A n \in {Len(streams[i].wire) - Len(streams'[i].wire)} :
          chunkRead(i, n) =>
              \A completed \in {SubSeq(streams[i].sent, Len(ReadWhole(i)) + 1,
                                       Len(ReadWhole(i)'))} :
                  /\ ReadCompletes(i, n) = completed
                  /\ streams'[i].accumulatedThought
                         = AppendThoughts(streams[i].accumulatedThought,
                                          ThinkingOf(completed))
                  /\ refreshSignals' - refreshSignals
                         = Cardinality({j \in 1..Len(completed) :
                                           completed[j].eventType = "done"})]_vars

\* "Hello " was delivered and the read after it ended inside the blank line
\* that ends the record of "world": the buffer holds that record less its
\* last unit, and nothing of it was delivered.
C31_Witness ==
    \E i \in 1..Len(streams) :
        /\ streams[i].phase = "reading"
        /\ streams[i].accumulatedThought = "Hello "
        /\ streamThought = "Hello "
        /\ Len(streams[i].sent) >= 2
        /\ streams[i].sent[2].data = "world"
        /\ streams[i].buffer = SubSeq(Frame("thinking", "world"), 1, FrameLen - 1)

----------------------------------------------------------------------------
(* Claims about the parallel group and the steps without a matching name *)

\* C32: a node_started event names a step of a parallel group: that step
\* becomes active, every other member of the group that is pending becomes
\* active with it, and every other member that is active, done or error keeps
\* its status.
C32_NodeStartedActivatesPendingSiblings ==
    [][ \A n \in NodeNames :
           LET k == LabelIndex(n)
           IN  (k > 0 /\ GroupOf(k) # NoGroup /\ ProgressStep(NodeStarted(n)))
               => /\ streamProgress'[k].status = "active"
                  /\ \A j \in 1..Len(streamProgress) :
                        (j # k /\ GroupOf(j) = GroupOf(k))
                            => streamProgress'[j] =
                                   IF streamProgress[j].status = "pending"
                                   THEN [streamProgress[j] EXCEPT !.status = "active"]
                                   ELSE streamProgress[j] ]_vars

\* Both members of the group had failed and a node_started event named the
\* first: it is active again and its sibling still marked error.
C32_Witness ==
    /\ Len(streamProgress) = Len(WORKFLOW_STEPS)
    /\ streamProgress[4].status = "active"
    /\ streamProgress[5].status = "error"

\* C33: a node_started event names no step of a list that still has a
\* pending step: every active step becomes done, the first pending step
\* becomes active together with the pending members of its group, and every
\* other step keeps its status.
C33_UnmatchedNodeStartedAdvances ==
    [][ \A n \in NodeNames :
           LET pending == {i \in 1..Len(streamProgress) :
                              streamProgress[i].status = "pending"}
               first == FindIndex(pending)
           IN  (LabelIndex(n) = 0 /\ pending # {} /\ ProgressStep(NodeStarted(n)))
               => /\ Len(streamProgress') = Len(streamProgress)
                  /\ \A i \in 1..Len(streamProgress) :
                        streamProgress'[i].status =
                            IF streamProgress[i].status = "active" THEN "done"
                            ELSE IF \/ i = first
                                    \/ /\ i \in pending
                                       /\ GroupOf(first) # NoGroup
                                       /\ GroupOf(i) = GroupOf(first)
                                 THEN "active"
                                 ELSE streamProgress[i].status ]_vars

\* C34: a workflow_started event marks the first two steps done and leaves
\* every other step as it was; an empty step list stays empty.
C34_WorkflowStartedMarksFirstTwo ==
    [][ ProgressStep(ProgressEvent("workflow_started", "", "workflow"))
        => /\ Len(streamProgress') = Len(streamProgress)
           /\ \A i \in 1..Len(streamProgress) :
                  streamProgress'[i] =
                      IF i <= 2 THEN [streamProgress[i] EXCEPT !.status = "done"]
                      ELSE streamProgress[i] ]_vars

\* started, then workflow_started: the first two steps are done and the
\* other five still pending, with no result stored.
C34_Witness ==
    /\ Len(streamProgress) = Len(WORKFLOW_STEPS)
    /\ streamProgress[1].status = "done"
    /\ streamProgress[2].status = "done"
    /\ \A i \in 3..Len(streamProgress) : streamProgress[i].status = "pending"
    /\ streamResult = NoValue

----------------------------------------------------------------------------
(* Claims about the start and the end of an attempt *)

\* C35: an accepted start or retry leaves the session reset, with the new
\* stream not yet connected: no thought, no steps, no stored error or result,
\* the local status processing and both flags set; the card shows the
\* analysing label and is not failed.
C35_AcceptedRetryResetsSession ==
    [][ (handleRetry /\ ~RetryBlocked)
        => /\ streamThought' = ""
           /\ streamProgress' = <<>>
           /\ streamError' = <<>>
           /\ streamResult' = NoValue
           /\ localStatus' = "processing"
           /\ isStreaming' /\ isRetrying'
           /\ statusLabel' = "Dify analyzing..." /\ ~isFailed'
           /\ Len(streams') = Len(streams) + 1
           /\ streams'[Len(streams')].phase = "connecting"
           /\ streams'[Len(streams')].accumulatedThought = "" ]_vars

\* A second attempt has just been accepted after one that had delivered a
\* thought: the session shows nothing of it.
C35_Witness ==
    /\ Len(streams) = 2
    /\ streams[1].accumulatedThought = "Hello world"
    /\ streams[2].phase = "connecting"
    /\ streamThought = "" /\ streamProgress = <<>>
    /\ streamError = <<>> /\ streamResult = NoValue
    /\ localStatus = "processing" /\ isStreaming /\ isRetrying

\* C36: once every stream the session opened has ended, by a done or an
\* error event, by a transport error or by the server closing it, the
\* session is no longer streaming or retrying, so that the two flags do not
\* block a new retry.
C36_EndedStreamLeavesStreaming ==
    (streams # <<>> /\ \A i \in 1..Len(streams) : streams[i].phase = "ended")
        => ~isStreaming /\ ~isRetrying

----------------------------------------------------------------------------
(* The coordinator while papers are removed from the list *)

\* App.vue:340-347  a paper has a card while it is in the list.
Listed(paperId) == \E i \in 1..Len(papers) : papers[i].id = paperId

\* The card of a paper in flight reports the end of its session
\* (App.vue:349). The card of a removed paper is unmounted and its stream
\* aborted (useThumbnailPreview.ts:394-400), which invokes no callback
\* (api.ts:460-462): it reports nothing.
cardReports(paperId, success) ==
    /\ Listed(paperId)
    /\ paperId \in processingPaperIds
    /\ handleProcessingDone(paperId, success)

\* GET /papers/pending lists papers the server still has.
pendingListed(pendingIds) ==
    /\ \A i \in 1..Len(pendingIds) : Listed(pendingIds[i])
    /\ handleBatchProcessResumed(pendingIds)

DeleteNext ==
    \/ handleBatchProcess
    \/ \E pendingIds \in PendingIdLists : pendingListed(pendingIds)
    \/ handleBatchProcessFailed
    \/ \E paperId \in PaperIds, success \in BOOLEAN : cardReports(paperId, success)
    \/ \E paperId \in PaperIds : Listed(paperId) /\ handlePaperDeleted(paperId)
    \/ \E ok \in BOOLEAN : loadDataSettled(ok, papers, Len(papers))

DeleteSpec == Init /\ [][DeleteNext]_vars

\* Every card that is mounted with its paper in flight reports, and the
\* pending-ID request of a suspended handleBatchProcess settles.
DeleteFairSpec ==
    /\ DeleteSpec
    /\ SF_vars(\E paperId \in PaperIds, success \in BOOLEAN :
                   cardReports(paperId, success))
    /\ WF_vars(\/ \E pendingIds \in PendingIdLists : pendingListed(pendingIds)
               \/ handleBatchProcessFailed)

\* C37: with papers being removed while they are in flight, every ID in the
\* in-flight set eventually leaves it and a running batch eventually
\* completes.
C37_RemovedPaperFreesItsSlot ==
    /\ \A paperId \in PaperIds :
           (paperId \in processingPaperIds) ~> (paperId \notin processingPaperIds)
    /\ batchProcessing ~> Idle

----------------------------------------------------------------------------
(* The batch-running flag against the queue and the in-flight set *)

\* C38: whenever an ID is queued or in flight, batchProcessing is true.
C38_FlagSetWhileWorkRemains ==
    (processingQueue # <<>> \/ processingPaperIds # {}) => batchProcessing

----------------------------------------------------------------------------
(* The order of a step's statuses within one session *)

\* C39: a workflow_started, node_started or node_finished event moves no
\* step backwards: a step that is done stays done, and an active step does
\* not become pending.
C39_StepStatusNeverMovesBack ==
    [][ \A event \in ProgressEvents :
           (event.status # "started" /\ ProgressStep(event))
               => /\ Len(streamProgress') = Len(streamProgress)
                  /\ \A i \in 1..Len(streamProgress) :
                        /\ streamProgress[i].status = "done"
                               => streamProgress'[i].status = "done"
                        /\ streamProgress[i].status = "active"
                               => streamProgress'[i].status # "pending" ]_vars

====
